---- MODULE Spec2Model ----
(***************************************************************************)
(* A model of backforth: the parser (src/src/parser.rs), the pretty        *)
(* printer (src/src/display.rs) and the stack machine Shell                *)
(* (src/src/lib.rs).                                                       *)
(*                                                                         *)
(* Text (a Rust String or &str) is a sequence of one-character strings.    *)
(* A Word is a record whose field t names the variant; every variant       *)
(* keeps its payload under a field name of its own:                        *)
(*   Atom [t, a]  Int [t, i]  Hex [t, h]  Str [t, s]  List [t, l]          *)
(* The payload of Hex(u32) is the base-16 digit sequence of the value,      *)
(* most significant digit first, without leading zeros (<<0>> for zero):   *)
(* u32 values exceed the integers of the model checker.                    *)
(* Word::Dict is left out: no operation of the machine constructs one.     *)
(***************************************************************************)
EXTENDS Integers, Sequences, FiniteSets, TLC

VARIABLES
    \* parser run: parse(input) of src/src/parser.rs, one loop iteration per step
    ptext,      \* the input text handed to parse
    ps,         \* parser state: remaining stream, block stack, result
    parm,       \* history: the arm of the scanning loop taken last
    depth,      \* history: '{' tokens scanned minus '}' tokens scanned
    shown,      \* the parsed program printed with Display
    reparsed,   \* parse of the printed text
    \* Shell of src/src/lib.rs
    dict, data, code, restore,
    status,     \* "new", "running", "ok" (run returned Ok), "err", "panic"
    err,        \* the error run returned
    \* history of the Shell run
    source,     \* what was loaded
    ev,         \* what the last loop iteration of run did
    pre,        \* the machine state before that iteration
    tries,      \* for every snapshot on restore: the state in which its try ran
    consumed,   \* the words popped from the code stack so far, in order
    steps       \* loop iterations executed

pvars == <<ptext, ps, parm, depth, shown, reparsed>>
svars == <<dict, data, code, restore, status, err, source, ev, pre, tries, consumed, steps>>
vars == <<ptext, ps, parm, depth, shown, reparsed,
          dict, data, code, restore, status, err, source, ev, pre, tries, consumed, steps>>

----------------------------------------------------------------------------
(* Bounds of the model *)

\* longest generated input text of the parser
MaxLen == 4
\* most operand words in a generated program
MaxArgs == 2
\* most lines in a generated multi-line source
MaxLines == 2
\* most loop iterations of one run
MaxSteps == 100
\* greatest argument of the factorial program
MaxFact == 5
\* most words in a generated body
MaxBody == 3

\* i32::max_value()
I32Max == 2147483647
I32Min == -I32Max - 1

----------------------------------------------------------------------------
(* Sequences and text *)

Last(s) == s[Len(s)]
Front(s) == SubSeq(s, 1, Len(s) - 1)
Drop(s, n) == SubSeq(s, n + 1, Len(s))

RECURSIVE Reverse(_)
Reverse(s) == IF s = <<>> THEN <<>> ELSE Append(Reverse(Tail(s)), Head(s))

RECURSIVE Concat(_)
Concat(ss) == IF ss = <<>> THEN <<>> ELSE Head(ss) \o Concat(Tail(ss))

SeqsUpTo(S, n) == UNION {[1..k -> S] : k \in 0..n}

StartsWith(s, p) == Len(s) >= Len(p) /\ SubSeq(s, 1, Len(p)) = p

\* index of the first occurrence of ch in s, 0 when there is none
RECURSIVE IndexOf(_, _)
IndexOf(s, ch) ==
    IF s = <<>> THEN 0
    ELSE IF Head(s) = ch THEN 1
    ELSE LET k == IndexOf(Tail(s), ch) IN IF k = 0 THEN 0 ELSE k + 1

DecDigits == <<"0", "1", "2", "3", "4", "5", "6", "7", "8", "9">>
HexDigits == <<"0", "1", "2", "3", "4", "5", "6", "7", "8", "9",
               "a", "b", "c", "d", "e", "f">>
HexUpper == <<"0", "1", "2", "3", "4", "5", "6", "7", "8", "9",
              "A", "B", "C", "D", "E", "F">>

IsDecDigit(c) == \E k \in 1..10 : DecDigits[k] = c
DecVal(c) == (CHOOSE k \in 1..10 : DecDigits[k] = c) - 1
IsHexDigit(c) == \E k \in 1..16 : HexDigits[k] = c \/ HexUpper[k] = c
HexVal(c) == (CHOOSE k \in 1..16 : HexDigits[k] = c \/ HexUpper[k] = c) - 1

\* char::is_whitespace on the characters the model uses
is_whitespace(c) == c \in {" ", "\n", "\t", "\r"}

----------------------------------------------------------------------------
(* Words: enum Word, src/src/lib.rs 16-24 *)

WAtom(a) == [t |-> "Atom", a |-> a]
WInt(i) == [t |-> "Int", i |-> i]
WHex(h) == [t |-> "Hex", h |-> h]
WStr(s) == [t |-> "Str", s |-> s]
WList(l) == [t |-> "List", l |-> l]

\* str::parse::<i32>: an optional sign, at least one decimal digit, no overflow
RECURSIVE AccI32(_, _, _)
AccI32(ds, acc, neg) ==
    IF ds = <<>> THEN [ok |-> TRUE, v |-> acc]
    ELSE IF ~IsDecDigit(Head(ds)) THEN [ok |-> FALSE, v |-> 0]
    ELSE LET d == DecVal(Head(ds)) IN
         IF neg
         THEN IF acc < -(I32Max \div 10) \/ acc * 10 < I32Min + d
              THEN [ok |-> FALSE, v |-> 0]
              ELSE AccI32(Tail(ds), acc * 10 - d, neg)
         ELSE IF acc > I32Max \div 10 \/ acc * 10 > I32Max - d
              THEN [ok |-> FALSE, v |-> 0]
              ELSE AccI32(Tail(ds), acc * 10 + d, neg)

parse_i32(w) ==
    IF w = <<>> THEN [ok |-> FALSE, v |-> 0]
    ELSE IF Head(w) \in {"+", "-"}
         THEN IF Tail(w) = <<>> THEN [ok |-> FALSE, v |-> 0]
              ELSE AccI32(Tail(w), 0, Head(w) = "-")
         ELSE AccI32(w, 0, FALSE)

\* digit values without leading zeros; zero is <<0>>
RECURSIVE StripZeros(_)
StripZeros(ds) ==
    IF Len(ds) > 1 /\ Head(ds) = 0 THEN StripZeros(Tail(ds)) ELSE ds

\* parse_hex: u32::from_str_radix(word, 16): an optional '+', at least one
\* hex digit of either case, at most 32 bits
parse_hex(word) ==
    LET ds == IF word # <<>> /\ Head(word) = "+" THEN Tail(word) ELSE word IN
    IF ds = <<>> \/ \E k \in 1..Len(ds) : ~IsHexDigit(ds[k])
    THEN [ok |-> FALSE, h |-> <<0>>]
    ELSE LET h == StripZeros([k \in 1..Len(ds) |-> HexVal(ds[k])]) IN
         IF Len(h) > 8 THEN [ok |-> FALSE, h |-> <<0>>] ELSE [ok |-> TRUE, h |-> h]

\* a u32 no larger than i32::max_value()
HexFitsI32(h) == Len(h) < 8 \/ h[1] <= 7

RECURSIVE HexToInt(_)
HexToInt(h) == IF h = <<>> THEN 0 ELSE HexToInt(Front(h)) * 16 + Last(h)

RECURSIVE NatToHexDigits(_)
NatToHexDigits(n) ==
    IF n < 16 THEN <<n>> ELSE Append(NatToHexDigits(n \div 16), n % 16)

----------------------------------------------------------------------------
(* Display: src/src/display.rs *)

\* write!(f, "{}", i) for an i32
RECURSIVE ShowNeg(_)
ShowNeg(i) ==
    \* i <= 0: the decimal digits of -i, computed without negating i
    LET d == (10 - (i % 10)) % 10
        rest == (i + d) \div 10
    IN  IF rest = 0 THEN <<DecDigits[d + 1]>>
        ELSE Append(ShowNeg(rest), DecDigits[d + 1])

ShowInt(i) == IF i < 0 THEN <<"-">> \o ShowNeg(i) ELSE ShowNeg(-i)

\* a Display of Hex that leaves out the '#'
ShowHex_bare(h) == [k \in 1..Len(h) |-> HexDigits[h[k] + 1]]

\* write!(f, "#{:x}", h)
ShowHex(h) == <<"#">> \o [k \in 1..Len(h) |-> HexDigits[h[k] + 1]]

RECURSIVE ShowWord(_), flatten(_, _)
\* impl fmt::Display for Word
ShowWord(w) ==
    CASE w.t = "Int" -> ShowInt(w.i)
      [] w.t = "Hex" -> ShowHex(w.h)
      [] w.t = "Str" -> <<"\"">> \o w.s \o <<"\"">>
      [] w.t = "Atom" -> w.a
      [] w.t = "List" ->
            IF w.l = <<>> THEN <<"{", "}">>
            ELSE <<"{", " ">> \o flatten(w.l, <<" ">>) \o <<" ", "}">>

\* Flattenable::flatten: the words printed and joined by sep
flatten(ws, sep) ==
    IF ws = <<>> THEN <<>>
    ELSE IF Len(ws) = 1 THEN ShowWord(ws[1])
    ELSE ShowWord(Head(ws)) \o sep \o flatten(Tail(ws), sep)

----------------------------------------------------------------------------
(* The parser: src/src/parser.rs *)

PResult(e, st, l) == [err |-> e, stack |-> st, list |-> l]

\* Stack::push: a new block holding one empty line
Stack_push(st) == Append(st, << <<>> >>)

\* a flatten that keeps the lines in their order of appearance
RECURSIVE FlattenBlock_forward(_)
FlattenBlock_forward(block) ==
    IF block = <<>> THEN <<>> ELSE Head(block) \o FlattenBlock_forward(Tail(block))

\* the loop of Stack::flatten: lines are popped from the block, the last first
RECURSIVE FlattenBlock(_)
FlattenBlock(block) ==
    IF block = <<>> THEN <<>> ELSE Last(block) \o FlattenBlock(Front(block))

Stack_flatten(st) ==
    IF st = <<>> THEN PResult("MissingOpenBrace", st, <<>>)
    ELSE PResult("", Front(st), FlattenBlock(Last(st)))

Stack_emit(st, word) ==
    IF st = <<>> THEN PResult("MissingOpenBrace", st, <<>>)
    ELSE LET block == Last(st)
             line == Append(Last(block), word)
         IN  PResult("", Append(Front(st), Append(Front(block), line)), <<>>)

Stack_newline(st) ==
    IF st = <<>> THEN PResult("MissingOpenBrace", st, <<>>)
    ELSE PResult("", Append(Front(st), Append(Last(st), <<>>)), <<>>)

Stack_pop(st) ==
    LET f == Stack_flatten(st) IN
    IF f.err # "" THEN f ELSE Stack_emit(f.stack, WList(f.list))

is_delim(ch) == ch \in {"{", ";", "}"}

\* a word_break that breaks at blanks and delimiters only
word_break_plain(a, b) == is_whitespace(b) \/ is_delim(b)

word_break(a, b) ==
    IF is_whitespace(b) THEN TRUE
    ELSE IF is_delim(b) THEN TRUE
    ELSE IF a = "=" /\ b = "=" THEN FALSE
    ELSE IF a = "=" THEN TRUE
    ELSE IF b = "=" THEN TRUE
    ELSE FALSE

\* the characters the word loop takes from the stream after the one in prev
RECURSIVE TakeWord(_, _)
TakeWord(prev, stream) ==
    IF stream = <<>> \/ word_break(prev, Head(stream)) THEN <<>>
    ELSE <<Head(stream)>> \o TakeWord(Head(stream), Tail(stream))

\* the parser between two iterations of `while let Some(ch) = stream.next()`
PState(s, st, res, prog) == [s |-> s, stack |-> st, res |-> res, prog |-> prog]

PStart(input) == PState(input, Stack_push(<<>>), "Run", <<>>)

\* the outcome of a stack operation followed by `?`
AfterStackOp(p, rest, r) ==
    IF r.err # "" THEN PState(rest, r.stack, r.err, <<>>)
    ELSE PState(rest, r.stack, "Run", <<>>)

ArmOpenBrace(p) == PState(Tail(p.s), Stack_push(p.stack), "Run", <<>>)

ArmCloseBrace(p) == AfterStackOp(p, Tail(p.s), Stack_pop(p.stack))

ArmQuote(p) ==
    LET rest == Tail(p.s)
        k == IndexOf(rest, "\"")
    IN  IF k = 0 THEN PState(<<>>, p.stack, "MissingEndQuote", <<>>)
        ELSE AfterStackOp(p, Drop(rest, k),
                          Stack_emit(p.stack, WStr(SubSeq(rest, 1, k - 1))))

ArmNewline(p) == AfterStackOp(p, Tail(p.s), Stack_newline(p.stack))

ArmWhitespace(p) == PState(Tail(p.s), p.stack, "Run", <<>>)

ArmWord(p) ==
    LET w == Head(p.s)
        word == <<w>> \o TakeWord(w, Tail(p.s))
        rest == Drop(p.s, Len(word))
    IN  IF word = <<"#">> \/ StartsWith(word, <<"#", "!">>)
        THEN \* a comment: the stream is read up to and including '\n'
             LET k == IndexOf(rest, "\n") IN
             PState(IF k = 0 THEN <<>> ELSE Drop(rest, k), p.stack, "Run", <<>>)
        ELSE IF Head(word) = "#"
        THEN LET h == parse_hex(Tail(word)) IN
             IF ~h.ok THEN PState(rest, p.stack, "BadHexLiteral", <<>>)
             ELSE AfterStackOp(p, rest, Stack_emit(p.stack, WHex(h.h)))
        ELSE LET i == parse_i32(word) IN
             IF i.ok THEN AfterStackOp(p, rest, Stack_emit(p.stack, WInt(i.v)))
             ELSE AfterStackOp(p, rest, Stack_emit(p.stack, WAtom(word)))

\* an end of parse that does not look at the block stack
ParseEnd_lax(p) ==
    LET f == Stack_flatten(p.stack) IN
    IF f.err # "" THEN PState(<<>>, f.stack, f.err, <<>>)
    ELSE PState(<<>>, f.stack, "Ok", f.list)

\* after the loop: the top-level block is flattened
ParseEnd(p) ==
    LET f == Stack_flatten(p.stack) IN
    IF f.err # "" THEN PState(<<>>, f.stack, f.err, <<>>)
    ELSE IF f.stack = <<>> THEN PState(<<>>, f.stack, "Ok", f.list)
    ELSE PState(<<>>, f.stack, "MissingCloseBrace", <<>>)

ArmOf(p) ==
    IF p.s = <<>> THEN "End"
    ELSE LET ch == Head(p.s) IN
         CASE ch = "{" -> "OpenBrace"
           [] ch = "}" -> "CloseBrace"
           [] ch = "\"" -> "Quote"
           [] ch \in {";", "\n"} -> "Newline"
           [] OTHER -> IF is_whitespace(ch) THEN "Whitespace" ELSE "Word"

ParseStep(p) ==
    LET a == ArmOf(p) IN
    CASE a = "End" -> ParseEnd(p)
      [] a = "OpenBrace" -> ArmOpenBrace(p)
      [] a = "CloseBrace" -> ArmCloseBrace(p)
      [] a = "Quote" -> ArmQuote(p)
      [] a = "Newline" -> ArmNewline(p)
      [] a = "Whitespace" -> ArmWhitespace(p)
      [] a = "Word" -> ArmWord(p)

RECURSIVE ParseLoop(_)
ParseLoop(p) == IF p.res # "Run" THEN p ELSE ParseLoop(ParseStep(p))

\* pub fn parse(input: &str) -> Result<Program, ParseErr>
parse(input) == ParseLoop(PStart(input))

----------------------------------------------------------------------------
(* Errors: enum EvalErr, src/src/lib.rs 26-37, and their Display *)

NoErr == [e |-> "None"]
StackUnderflow == [e |-> "StackUnderflow"]
CantUnderstand(name) == [e |-> "CantUnderstand", name |-> name]
DivideByZero == [e |-> "DivideByZero"]
CantCoerce(word, ty) == [e |-> "CantCoerce", word |-> word, ty |-> ty]
WrongType(word, ty) == [e |-> "WrongType", word |-> word, ty |-> ty]
BadParse(perr) == [e |-> "BadParse", perr |-> perr]
EmptyList == [e |-> "EmptyList"]
MacroFailed == [e |-> "MacroFailed"]

\* impl fmt::Display for TypeName
ShowTypeName(ty) ==
    CASE ty = "Atom" -> <<"a", "t", "o", "m">>
      [] ty = "Int" -> <<"i", "n", "t", "e", "g", "e", "r">>
      [] ty = "Hex" -> <<"h", "e", "x">>
      [] ty = "Str" -> <<"s", "t", "r", "i", "n", "g">>
      [] ty = "List" -> <<"l", "i", "s", "t">>

\* impl fmt::Display for ParseErr
ShowParseErr(perr) ==
    CASE perr = "MissingOpenBrace" -> <<"m", "i", "s", "s", "i", "n", "g", " ", "{">>
      [] perr = "MissingCloseBrace" -> <<"m", "i", "s", "s", "i", "n", "g", " ", "}">>
      [] perr = "MissingEndQuote" -> <<"m", "i", "s", "s", "i", "n", "g", " ", "\"">>
      [] perr = "BadHexLiteral" ->
            <<"i", "n", "v", "a", "l", "i", "d", " ", "h", "e", "x", " ",
              "f", "o", "r", "m", "a", "t">>

\* impl fmt::Display for EvalErr
ShowErr(x) ==
    CASE x.e = "StackUnderflow" ->
            <<"s", "t", "a", "c", "k", " ", "u", "n", "d", "e", "r", "f", "l", "o", "w">>
      [] x.e = "DivideByZero" ->
            <<"d", "i", "v", "i", "d", "e", "d", " ", "b", "y", " ", "z", "e", "r", "o">>
      [] x.e = "CantCoerce" ->
            <<"c", "a", "n", "n", "o", "t", " ", "c", "o", "n", "v", "e", "r", "t", " ">>
            \o ShowWord(x.word) \o <<" ", "t", "o", " ">> \o ShowTypeName(x.ty)
      [] x.e = "WrongType" ->
            <<"t", "y", "p", "e", " ", "o", "f", " ">> \o ShowWord(x.word)
            \o <<" ", "i", "s", " ", "n", "o", "t", " ">> \o ShowTypeName(x.ty)
      [] x.e = "CantUnderstand" ->
            <<"c", "a", "n", "'", "t", " ", "u", "n", "d", "e", "r", "s", "t", "a", "n", "d", " ">>
            \o x.name
      [] x.e = "BadParse" -> ShowParseErr(x.perr)
      [] x.e = "EmptyList" -> <<"e", "m", "p", "t", "y", " ", "l", "i", "s", "t">>
      [] x.e = "MacroFailed" ->
            <<"b", "a", "d", " ", "a", "r", "g", "u", "m", "e", "n", "t", "s", " ",
              "f", "o", "r", " ", "m", "a", "c", "r", "o">>

\* format!("{} error: {}", &name, &err) of Shell::run
Diagnostic(name, x) ==
    name \o <<" ", "e", "r", "r", "o", "r", ":", " ">> \o ShowErr(x)

----------------------------------------------------------------------------
(* Bindings and stack effects: src/src/lib.rs 100-111, 776-860 *)

TypeSpec(i, o, x) == [input |-> i, output |-> o, exact |-> x]
exact(i, o) == TypeSpec(i, o, TRUE)
inexact(i) == TypeSpec(i, 0, FALSE)
\* TypeSpec::literal
literal == TypeSpec(0, 1, TRUE)

Primitive(op) == [k |-> "Primitive", op |-> op]
Interpreted(spec, word) == [k |-> "Interpreted", spec |-> spec, word |-> word]

\* a table that declares every built-in exact with one input and one output
Builtin_get_type_flat(op) == exact(1, 1)

Builtin_get_type(op) ==
    CASE op = "Bye" -> inexact(0)
      [] op = "Assign" -> inexact(1)
      [] op = "Eval" -> inexact(1)
      [] op = "Expand" -> inexact(2)
      [] op = "If" -> inexact(3)
      [] op = "Try" -> inexact(2)
      [] op = "PopEH" -> exact(0, 0)
      [] op = "Quote" -> inexact(0)
      [] op = "Explode" -> inexact(1)
      [] op = "Capture" -> inexact(0)
      [] op = "Debug" -> exact(0, 0)
      [] op = "Inspect" -> exact(1, 0)
      [] op = "Len" -> exact(1, 1)
      [] op = "Append" -> exact(2, 1)
      [] op = "Strcat" -> exact(2, 1)
      [] op = "Push" -> exact(2, 1)
      [] op = "Pop" -> exact(1, 2)
      [] op = "Shift" -> exact(1, 2)
      [] op = "Unshift" -> exact(2, 1)
      [] op = "Parse" -> exact(1, 1)
      [] op = "Echo" -> exact(1, 0)
      [] op = "Prompt" -> exact(1, 1)
      [] op = "Command" -> exact(2, 1)
      [] op = "Load" -> exact(1, 1)
      [] op = "Flatten" -> exact(2, 1)
      [] op = "Pick" -> exact(2, 2)
      [] op = "Roll" -> exact(2, 1)
      [] op = "Drop" -> exact(1, 0)
      [] op = "Clear" -> inexact(0)
      [] op = "Lines" -> exact(1, 1)
      [] op = "Hex" -> exact(1, 1)
      [] op = "Int" -> exact(1, 1)
      [] op = "OpAdd" -> exact(2, 1)
      [] op = "OpDiv" -> exact(2, 1)
      [] op = "OpSub" -> exact(2, 1)
      [] op = "OpMul" -> exact(2, 1)
      [] op = "OpNeg" -> exact(1, 1)
      [] op = "OpEql" -> exact(2, 1)
      [] op = "OpGt" -> exact(2, 1)
      [] op = "OpLt" -> exact(2, 1)
      [] op = "InfixExpr" -> inexact(0)

\* Builtin::default_bindings: the names of the built-ins
BuiltinTable ==
    {[name |-> <<"b", "y", "e">>, op |-> "Bye"],
       [name |-> <<"=">>, op |-> "Assign"],
       [name |-> <<"e", "v", "a", "l">>, op |-> "Eval"],
       [name |-> <<"e", "x", "p", "a", "n", "d">>, op |-> "Expand"],
       [name |-> <<"i", "f">>, op |-> "If"],
       [name |-> <<"t", "r", "y">>, op |-> "Try"],
       [name |-> <<"p", "o", "p", "e", "h">>, op |-> "PopEH"],
       [name |-> <<"q", "u", "o", "t", "e">>, op |-> "Quote"],
       [name |-> <<"e", "x", "p", "l", "o", "d", "e">>, op |-> "Explode"],
       [name |-> <<"c", "a", "p", "t", "u", "r", "e">>, op |-> "Capture"],
       [name |-> <<"d", "e", "b", "u", "g">>, op |-> "Debug"],
       [name |-> <<"i", "n", "s", "p", "e", "c", "t">>, op |-> "Inspect"],
       [name |-> <<"l", "e", "n">>, op |-> "Len"],
       [name |-> <<"a", "p", "p", "e", "n", "d">>, op |-> "Append"],
       [name |-> <<"p", "u", "s", "h">>, op |-> "Push"],
       [name |-> <<"p", "o", "p">>, op |-> "Pop"],
       [name |-> <<"s", "h", "i", "f", "t">>, op |-> "Shift"],
       [name |-> <<"u", "n", "s", "h", "i", "f", "t">>, op |-> "Unshift"],
       [name |-> <<"p", "a", "r", "s", "e">>, op |-> "Parse"],
       [name |-> <<"e", "c", "h", "o">>, op |-> "Echo"],
       [name |-> <<"p", "r", "o", "m", "p", "t">>, op |-> "Prompt"],
       [name |-> <<"c", "o", "m", "m", "a", "n", "d">>, op |-> "Command"],
       [name |-> <<"l", "o", "a", "d">>, op |-> "Load"],
       [name |-> <<"f", "l", "a", "t", "t", "e", "n">>, op |-> "Flatten"],
       [name |-> <<"p", "i", "c", "k">>, op |-> "Pick"],
       [name |-> <<"r", "o", "l", "l">>, op |-> "Roll"],
       [name |-> <<"d", "r", "o", "p">>, op |-> "Drop"],
       [name |-> <<"c", "l", "e", "a", "r">>, op |-> "Clear"],
       [name |-> <<"s", "t", "r", "c", "a", "t">>, op |-> "Strcat"],
       [name |-> <<"l", "i", "n", "e", "s">>, op |-> "Lines"],
       [name |-> <<"h", "e", "x">>, op |-> "Hex"],
       [name |-> <<"i", "n", "t">>, op |-> "Int"],
       [name |-> <<"+">>, op |-> "OpAdd"],
       [name |-> <<"-">>, op |-> "OpSub"],
       [name |-> <<"*">>, op |-> "OpMul"],
       [name |-> <<"/">>, op |-> "OpDiv"],
       [name |-> <<"~">>, op |-> "OpNeg"],
       [name |-> <<"=", "=">>, op |-> "OpEql"],
       [name |-> <<"<">>, op |-> "OpLt"],
       [name |-> <<">">>, op |-> "OpGt"],
       [name |-> <<")", ")">>, op |-> "InfixExpr"]}

default_bindings ==
    [n \in {b.name : b \in BuiltinTable} |->
        Primitive((CHOOSE b \in BuiltinTable : b.name = n).op)]

NameOf(op) == (CHOOSE b \in BuiltinTable : b.op = op).name

\* a merge that does not charge the missing operands to the input
merge_nodeficit(self, rhs) ==
    LET output == IF self.output < rhs.input THEN 0 ELSE self.output - rhs.input
    IN  TypeSpec(self.input, output + rhs.output, self.exact /\ rhs.exact)

\* TypeSpec::merge
merge(self, rhs) ==
    LET input == IF self.output < rhs.input
                 THEN self.input + (rhs.input - self.output) ELSE self.input
        output == IF self.output < rhs.input THEN 0 ELSE self.output - rhs.input
    IN  TypeSpec(input, output + rhs.output, self.exact /\ rhs.exact)

\* Shell::get_type: None for an atom the dictionary does not bind
get_type(d, word) ==
    IF word.t # "Atom" THEN [some |-> TRUE, spec |-> literal]
    ELSE IF word.a \notin DOMAIN d THEN [some |-> FALSE, spec |-> literal]
    ELSE LET def == d[word.a] IN
         [some |-> TRUE,
          spec |-> IF def.k = "Primitive" THEN Builtin_get_type(def.op) ELSE def.spec]

\* the loop of Shell::infer_type over def.iter().rev()
RECURSIVE InferLoop(_, _, _)
InferLoop(d, def, spec) ==
    IF def = <<>> THEN spec
    ELSE LET next == get_type(d, Last(def))
             s1 == IF next.some THEN merge(spec, next.spec)
                   ELSE [spec EXCEPT !.exact = FALSE]
         IN  IF ~s1.exact THEN s1 ELSE InferLoop(d, Front(def), s1)

infer_type(d, def) == InferLoop(d, def, TypeSpec(0, 0, TRUE))

----------------------------------------------------------------------------
(* Conversions of Word: src/src/lib.rs 646-734 *)

CvOk(v) == [ok |-> TRUE, v |-> v, err |-> NoErr]
CvErr(x) == [ok |-> FALSE, v |-> 0, err |-> x]

\* an as_atom that takes the text of a Str for a name
as_atom_lax(w) ==
    IF w.t = "Atom" THEN CvOk(w.a)
    ELSE IF w.t = "Str" THEN CvOk(w.s)
    ELSE CvErr(WrongType(w, "Atom"))

as_atom(w) == IF w.t = "Atom" THEN CvOk(w.a) ELSE CvErr(WrongType(w, "Atom"))
as_bool(w) == IF w.t = "Int" THEN CvOk(w.i # 0) ELSE CvErr(WrongType(w, "Int"))
as_int(w) == IF w.t = "Int" THEN CvOk(w.i) ELSE CvErr(WrongType(w, "Int"))
as_list(w) == IF w.t = "List" THEN CvOk(w.l) ELSE CvErr(WrongType(w, "List"))
as_str(w) == IF w.t = "Str" THEN CvOk(w.s) ELSE CvErr(WrongType(w, "Str"))

\* a conversion that accepts an Int only and reports WrongType
into_int_strict(w) == IF w.t = "Int" THEN CvOk(w.i) ELSE CvErr(WrongType(w, "Int"))

into_int(w) ==
    IF w.t = "Int" THEN CvOk(w.i)
    ELSE IF w.t = "Hex" /\ HexFitsI32(w.h) THEN CvOk(HexToInt(w.h))
    ELSE CvErr(CantCoerce(w, "Int"))

into_hex(w) ==
    IF w.t = "Hex" THEN CvOk(w.h)
    ELSE IF w.t = "Int" /\ w.i >= 0 THEN CvOk(NatToHexDigits(w.i))
    ELSE CvErr(CantCoerce(w, "Hex"))

into_string(w) == IF w.t = "Str" THEN w.s ELSE ShowWord(w)

into_list(w) == IF w.t = "List" THEN w.l ELSE <<w>>

\* `h as usize` as an index into the data stack; an index of 2^28 or more is
\* past the end of any stack of the model
HexIndex(h) == IF Len(h) <= 7 THEN HexToInt(h) ELSE I32Max

\* impl From<bool> for Word
FromBool(b) == IF b THEN WInt(1) ELSE WInt(0)

\* an expand that does not descend into nested lists
expand_shallow(w, map) ==
    CASE w.t = "Atom" -> IF w.a \in DOMAIN map THEN map[w.a] ELSE w
      [] w.t = "List" ->
            WList([k \in 1..Len(w.l) |->
                    IF w.l[k].t = "Atom" /\ w.l[k].a \in DOMAIN map
                    THEN map[w.l[k].a] ELSE w.l[k]])
      [] OTHER -> w

\* Word::expand
RECURSIVE expand(_, _)
expand(w, map) ==
    CASE w.t = "Atom" -> IF w.a \in DOMAIN map THEN map[w.a] ELSE w
      [] w.t = "List" -> WList([k \in 1..Len(w.l) |-> expand(w.l[k], map)])
      [] OTHER -> w

\* str::lines: the text split at '\n', a final empty piece dropped, a '\r'
\* before the '\n' removed
RECURSIVE str_lines(_)
str_lines(s) ==
    IF s = <<>> THEN <<>>
    ELSE LET k == IndexOf(s, "\n")
             raw == IF k = 0 THEN s ELSE SubSeq(s, 1, k - 1)
             line == IF k # 0 /\ raw # <<>> /\ Last(raw) = "\r" THEN Front(raw) ELSE raw
         IN  <<line>> \o (IF k = 0 THEN <<>> ELSE str_lines(Drop(s, k)))

----------------------------------------------------------------------------
(* i32 arithmetic.  The integers of the model are those of the model       *)
(* checker, so sums and products are formed only when they fit.  On        *)
(* overflow `+`, `-`, `*` and unary `-` panic in a build with overflow     *)
(* checks and wrap modulo 2^32 in a build without.                         *)

AddOverflows(x, y) ==
    \/ y > 0 /\ x > I32Max - y
    \/ y < 0 /\ x < I32Min - y

WrapAdd(x, y) ==
    IF ~AddOverflows(x, y) THEN x + y
    ELSE IF y > 0 THEN (x - I32Max - 1) + (y - I32Max - 1)
    ELSE (x + I32Max + 1) + (y + I32Max + 1)

SubOverflows(x, y) ==
    \/ y < 0 /\ x > I32Max + y
    \/ y > 0 /\ x < I32Min + y

WrapSub(x, y) ==
    IF ~SubOverflows(x, y) THEN x - y
    ELSE IF y = I32Min THEN x + I32Min
    ELSE WrapAdd(x, -y)

NegOverflows(x) == x = I32Min
WrapNeg(x) == IF x = I32Min THEN I32Min ELSE -x

MulOverflows(x, y) ==
    IF x = 0 \/ y = 0 THEN FALSE
    ELSE IF x = -1 THEN y = I32Min
    ELSE IF y = -1 THEN x = I32Min
    ELSE IF x > 0 /\ y > 0 THEN x > I32Max \div y
    ELSE IF x > 0 /\ y < 0 THEN y < (I32Min + x - 1) \div x
    ELSE IF x < 0 /\ y > 0 THEN x < (I32Min + y - 1) \div y
    ELSE x = I32Min \/ y = I32Min \/ (-x) > I32Max \div (-y)

\* x * n modulo 2^32 for n >= 0, by doubling
RECURSIVE WrapMulNat(_, _)
WrapMulNat(x, n) ==
    IF n = 0 THEN 0
    ELSE LET h == WrapMulNat(WrapAdd(x, x), n \div 2) IN
         IF n % 2 = 1 THEN WrapAdd(h, x) ELSE h

WrapMul(x, y) ==
    IF ~MulOverflows(x, y) THEN x * y
    ELSE IF y = I32Min THEN (IF x % 2 = 1 THEN I32Min ELSE 0)
    ELSE IF y < 0 THEN WrapNeg(WrapMulNat(x, -y))
    ELSE WrapMulNat(x, y)

\* i32::checked_div: None for a zero divisor and for the quotient that overflows
\* a division that yields 0 for a zero divisor
checked_div_total(x, y) ==
    IF y = 0 \/ (x = I32Min /\ y = -1) THEN [some |-> TRUE, v |-> 0]
    ELSE LET q == x \div y IN
         [some |-> TRUE,
          v |-> IF q * y # x /\ ((x < 0) # (y < 0)) THEN q + 1 ELSE q]

checked_div(x, y) ==
    IF y = 0 \/ (x = I32Min /\ y = -1) THEN [some |-> FALSE, v |-> 0]
    ELSE LET q == x \div y IN
         [some |-> TRUE,
          v |-> IF q * y # x /\ ((x < 0) # (y < 0)) THEN q + 1 ELSE q]


----------------------------------------------------------------------------
(* The machine: struct Shell and struct Env, src/src/lib.rs 48-53, 113-117 *)
(* data is the VecDeque with its front (the top of the stack) first; code  *)
(* is the Vec with its tail (the next word to run) last.                   *)

Shell(d, dt, c, r) == [dict |-> d, data |-> dt, code |-> c, restore |-> r]
Env(d, dt, c) == [dict |-> d, data |-> dt, code |-> c]

\* the result of one built-in or of one loop iteration: Ok(()), Err(x), or a
\* panic of the host; m is the machine as the operation left it
Ok(m) == [res |-> "Ok", m |-> m, err |-> NoErr]
Fail(x, m) == [res |-> "Err", m |-> m, err |-> x]
Panic(m) == [res |-> "Panic", m |-> m, err |-> NoErr]

\* Shell::load
load(m, program) == [m EXCEPT !.code = @ \o program]

\* Shell::push
push(m, w) == [m EXCEPT !.data = <<w>> \o @]

\* the conversion that follows a pop: self.pop()?.as_int()?, ...; "any" is a
\* pop without a conversion
convert(cv, w) ==
    CASE cv = "any" -> CvOk(w)
      [] cv = "as_atom" -> as_atom(w)
      [] cv = "as_bool" -> as_bool(w)
      [] cv = "as_int" -> as_int(w)
      [] cv = "as_list" -> as_list(w)
      [] cv = "as_str" -> as_str(w)
      [] cv = "into_int" -> into_int(w)
      [] cv = "into_hex" -> into_hex(w)

\* Shell::pop followed by `?` and by a conversion followed by `?`
pop(m, cv) ==
    IF m.data = <<>> THEN [ok |-> FALSE, v |-> 0, err |-> StackUnderflow, m |-> m]
    ELSE LET c == convert(cv, Head(m.data)) IN
         [ok |-> c.ok, v |-> c.v, err |-> c.err, m |-> [m EXCEPT !.data = Tail(@)]]

\* self.code.pop().ok_or(EvalErr::MacroFailed)?
code_pop(m) ==
    IF m.code = <<>> THEN [ok |-> FALSE, v |-> 0, err |-> MacroFailed, m |-> m]
    ELSE [ok |-> TRUE, v |-> Last(m.code), err |-> NoErr,
          m |-> [m EXCEPT !.code = Front(@)]]

\* a lookup whose error does not name the atom
lookup_anon(m, name) ==
    IF name \in DOMAIN m.dict THEN CvOk(m.dict[name]) ELSE CvErr(CantUnderstand(<<>>))

\* Shell::lookup
lookup(m, name) ==
    IF name \in DOMAIN m.dict THEN CvOk(m.dict[name]) ELSE CvErr(CantUnderstand(name))

\* a recovery that keeps the dictionary of the failed body
recover_keepdict(m, env) == [m EXCEPT !.code = env.code, !.data = env.data]

\* Shell::recover
recover(m, env) == [m EXCEPT !.dict = env.dict, !.code = env.code, !.data = env.data]

\* what the host and its environment decide: whether integer overflow wraps
\* or panics, and what the operating system answers to prompt, command, load
NoIo == [ok |-> TRUE, text |-> <<>>]
IoAnswers == {[ok |-> FALSE, text |-> <<>>], NoIo, [ok |-> TRUE, text |-> <<"1">>]}
Hosts(op) ==
    IF op \in {"OpAdd", "OpSub", "OpMul", "OpNeg"}
    THEN {[ovf |-> "wrap", io |-> NoIo], [ovf |-> "panic", io |-> NoIo]}
    ELSE IF op \in {"Prompt", "Command", "Load"}
    THEN {[ovf |-> "wrap", io |-> a] : a \in IoAnswers}
    ELSE {[ovf |-> "wrap", io |-> NoIo]}

Builtin_Bye(m) == Ok([m EXCEPT !.code = <<>>])

\* an assignment that pops its value from the data stack before it takes its
\* name from the code stack
Builtin_Assign_datafirst(m) ==
    LET value == pop(m, "any") IN
    IF ~value.ok THEN Fail(value.err, value.m) ELSE
    LET c == code_pop(value.m) IN
    IF ~c.ok THEN Fail(c.err, c.m) ELSE
    LET name == as_atom(c.v) IN
    IF ~name.ok THEN Fail(name.err, c.m) ELSE
    LET m1 == c.m
        def == Interpreted(literal, value.v)
    IN  Ok([m1 EXCEPT !.dict = [n \in DOMAIN m1.dict \cup {name.v} |->
                                    IF n = name.v THEN def ELSE m1.dict[n]]])

\* an assignment that keeps the binding of a name that is already bound
Builtin_Assign_keep(m) ==
    LET c == code_pop(m) IN
    IF ~c.ok THEN Fail(c.err, c.m) ELSE
    LET name == as_atom(c.v) IN
    IF ~name.ok THEN Fail(name.err, c.m) ELSE
    LET value == pop(c.m, "any") IN
    IF ~value.ok THEN Fail(value.err, value.m) ELSE
    LET m1 == value.m
        typespec == IF value.v.t = "List" THEN infer_type(m1.dict, value.v.l)
                    ELSE literal
        def == Interpreted(typespec, value.v)
    IN  Ok([m1 EXCEPT !.dict = [n \in DOMAIN m1.dict \cup {name.v} |->
                                    IF n \in DOMAIN m1.dict THEN m1.dict[n] ELSE def]])

Builtin_Assign(m) ==
    LET c == code_pop(m) IN
    IF ~c.ok THEN Fail(c.err, c.m) ELSE
    LET name == as_atom(c.v) IN
    IF ~name.ok THEN Fail(name.err, c.m) ELSE
    LET value == pop(c.m, "any") IN
    IF ~value.ok THEN Fail(value.err, value.m) ELSE
    LET m1 == value.m
        typespec == IF value.v.t = "List" THEN infer_type(m1.dict, value.v.l)
                    ELSE literal
        def == Interpreted(typespec, value.v)
    IN  Ok([m1 EXCEPT !.dict = [n \in DOMAIN m1.dict \cup {name.v} |->
                                    IF n = name.v THEN def ELSE m1.dict[n]]])

Builtin_Eval(m) ==
    LET w == pop(m, "any") IN
    IF ~w.ok THEN Fail(w.err, w.m)
    ELSE IF w.v.t = "List" THEN Ok(load(w.m, w.v.l))
    ELSE Ok(push(w.m, w.v))

\* the loop of Builtin::Expand over the names
RECURSIVE ExpandBind(_, _, _)
ExpandBind(names, m, map) ==
    IF names = <<>> THEN [ok |-> TRUE, v |-> map, err |-> NoErr, m |-> m]
    ELSE LET a == as_atom(Head(names)) IN
         IF ~a.ok THEN [ok |-> FALSE, v |-> map, err |-> a.err, m |-> m]
         ELSE LET value == pop(m, "any") IN
              IF ~value.ok THEN [ok |-> FALSE, v |-> map, err |-> value.err, m |-> value.m]
              ELSE ExpandBind(Tail(names), value.m,
                              [n \in DOMAIN map \cup {a.v} |->
                                  IF n = a.v THEN value.v ELSE map[n]])

Builtin_Expand(m) ==
    LET names == pop(m, "as_list") IN
    IF ~names.ok THEN Fail(names.err, names.m) ELSE
    LET body == pop(names.m, "any") IN
    IF ~body.ok THEN Fail(body.err, body.m) ELSE
    LET b == ExpandBind(names.v, body.m, <<>>) IN
    IF ~b.ok THEN Fail(b.err, b.m)
    ELSE Ok(push(b.m, expand(body.v, b.v)))

Builtin_If(m) ==
    LET test == pop(m, "as_bool") IN
    IF ~test.ok THEN Fail(test.err, test.m) ELSE
    LET consequent == pop(test.m, "as_list") IN
    IF ~consequent.ok THEN Fail(consequent.err, consequent.m) ELSE
    LET alternative == pop(consequent.m, "as_list") IN
    IF ~alternative.ok THEN Fail(alternative.err, alternative.m)
    ELSE IF test.v THEN Ok(load(alternative.m, consequent.v))
    ELSE Ok(load(alternative.m, alternative.v))

Builtin_Try(m) ==
    LET body == pop(m, "as_list") IN
    IF ~body.ok THEN Fail(body.err, body.m) ELSE
    LET catch == pop(body.m, "as_list") IN
    IF ~catch.ok THEN Fail(catch.err, catch.m) ELSE
    LET m1 == catch.m
        env == Env(m1.dict, m1.data, m1.code \o catch.v)
        m2 == [m1 EXCEPT !.restore = Append(@, env),
                         !.code = Append(@, WAtom(<<"p", "o", "p", "e", "h">>))]
    IN  Ok(load(m2, body.v))

Builtin_PopEH(m) ==
    Ok([m EXCEPT !.restore = IF @ = <<>> THEN <<>> ELSE Front(@)])

Builtin_Quote(m) ==
    LET word == code_pop(m) IN
    IF ~word.ok THEN Fail(word.err, word.m) ELSE Ok(push(word.m, word.v))

Builtin_Explode(m) ==
    LET items == pop(m, "as_list") IN
    IF ~items.ok THEN Fail(items.err, items.m)
    ELSE Ok([items.m EXCEPT !.data = @ \o items.v])

Builtin_Capture(m) == Ok(push(m, WList(m.data)))

\* prints the code stack; the machine is unchanged
Builtin_Debug(m) == Ok(m)

Builtin_Inspect(m) ==
    LET name == pop(m, "as_atom") IN
    IF ~name.ok THEN Fail(name.err, name.m) ELSE
    LET def == lookup(name.m, name.v) IN
    IF ~def.ok THEN Fail(def.err, name.m) ELSE Ok(name.m)

Builtin_Len(m) ==
    LET l == pop(m, "as_list") IN
    IF ~l.ok THEN Fail(l.err, l.m) ELSE Ok(push(l.m, WInt(Len(l.v))))

Builtin_Append(m) ==
    LET lhs == pop(m, "as_list") IN
    IF ~lhs.ok THEN Fail(lhs.err, lhs.m) ELSE
    LET rhs == pop(lhs.m, "as_list") IN
    IF ~rhs.ok THEN Fail(rhs.err, rhs.m) ELSE Ok(push(rhs.m, WList(lhs.v \o rhs.v)))

\* a push that puts the value at the front of the list
Builtin_Push_front(m) ==
    LET value == pop(m, "any") IN
    IF ~value.ok THEN Fail(value.err, value.m) ELSE
    LET list == pop(value.m, "as_list") IN
    IF ~list.ok THEN Fail(list.err, list.m)
    ELSE Ok(push(list.m, WList(<<value.v>> \o list.v)))

Builtin_Push(m) ==
    LET value == pop(m, "any") IN
    IF ~value.ok THEN Fail(value.err, value.m) ELSE
    LET list == pop(value.m, "as_list") IN
    IF ~list.ok THEN Fail(list.err, list.m)
    ELSE Ok(push(list.m, WList(Append(list.v, value.v))))

Builtin_Pop(m) ==
    LET list == pop(m, "as_list") IN
    IF ~list.ok THEN Fail(list.err, list.m)
    ELSE IF list.v = <<>> THEN Fail(EmptyList, list.m)
    ELSE Ok(push(push(list.m, WList(Front(list.v))), Last(list.v)))

\* a shift that hands the empty List back
Builtin_Shift_lax(m) ==
    LET list == pop(m, "as_list") IN
    IF ~list.ok THEN Fail(list.err, list.m)
    ELSE Ok(push(list.m, WList(list.v)))

Builtin_Shift(m) ==
    LET list == pop(m, "as_list") IN
    IF ~list.ok THEN Fail(list.err, list.m)
    ELSE IF list.v = <<>> THEN Fail(EmptyList, list.m)
    ELSE Ok(push(push(list.m, WList(Tail(list.v))), Head(list.v)))

Builtin_Unshift(m) ==
    LET value == pop(m, "any") IN
    IF ~value.ok THEN Fail(value.err, value.m) ELSE
    LET list == pop(value.m, "as_list") IN
    IF ~list.ok THEN Fail(list.err, list.m)
    ELSE Ok(push(list.m, WList(<<value.v>> \o list.v)))

Builtin_Parse(m) ==
    LET src == pop(m, "as_str") IN
    IF ~src.ok THEN Fail(src.err, src.m) ELSE
    LET program == parse(src.v) IN
    IF program.res # "Ok" THEN Fail(BadParse(program.res), src.m)
    ELSE Ok(push(src.m, WList(program.prog)))

\* prints the popped word
Builtin_Echo(m) ==
    LET w == pop(m, "any") IN
    IF ~w.ok THEN Fail(w.err, w.m) ELSE Ok(w.m)

\* stdin().read_line(..).unwrap(): the line read, its '\n' discarded
Builtin_Prompt(m, host) ==
    LET text == pop(m, "any") IN
    IF ~text.ok THEN Fail(text.err, text.m)
    ELSE IF ~host.io.ok THEN Panic(text.m)
    ELSE Ok(push(text.m, WStr(host.io.text)))

Builtin_Command(m, host) ==
    LET name == pop(m, "any") IN
    IF ~name.ok THEN Fail(name.err, name.m) ELSE
    LET args == pop(name.m, "any") IN
    IF ~args.ok THEN Fail(args.err, args.m) ELSE
    LET argv == into_list(args.v) IN
    IF \E k \in 1..Len(argv) : argv[k].t # "Str"
    THEN LET k == CHOOSE k \in 1..Len(argv) :
                     argv[k].t # "Str" /\ \A j \in 1..(k - 1) : argv[j].t = "Str"
         IN  Fail(WrongType(argv[k], "Str"), args.m)
    ELSE IF ~host.io.ok THEN Panic(args.m)
    ELSE Ok(push(args.m, WStr(host.io.text)))

\* File::open(&path).unwrap() and read_to_string(..).unwrap()
Builtin_Load(m, host) ==
    LET path == pop(m, "as_str") IN
    IF ~path.ok THEN Fail(path.err, path.m)
    ELSE IF ~host.io.ok THEN Panic(path.m)
    ELSE Ok(push(path.m, WStr(host.io.text)))

Builtin_Flatten(m) ==
    LET sep == pop(m, "any") IN
    IF ~sep.ok THEN Fail(sep.err, sep.m) ELSE
    LET list == pop(sep.m, "any") IN
    IF ~list.ok THEN Fail(list.err, list.m)
    ELSE Ok(push(list.m, WStr(flatten(into_list(list.v), into_string(sep.v)))))

Builtin_Pick(m) ==
    LET i == pop(m, "into_hex") IN
    IF ~i.ok THEN Fail(i.err, i.m) ELSE
    LET k == HexIndex(i.v) IN
    IF k >= Len(i.m.data) THEN Fail(StackUnderflow, i.m)
    ELSE Ok(push(i.m, i.m.data[k + 1]))

\* a roll that leaves the addressed word in its place
Builtin_Roll_keep(m) ==
    LET i == pop(m, "into_hex") IN
    IF ~i.ok THEN Fail(i.err, i.m) ELSE
    LET k == HexIndex(i.v)
        d == i.m.data
    IN  IF k >= Len(d) THEN Fail(StackUnderflow, i.m)
        ELSE Ok([i.m EXCEPT !.data = <<d[k + 1]>> \o d])

Builtin_Roll(m) ==
    LET i == pop(m, "into_hex") IN
    IF ~i.ok THEN Fail(i.err, i.m) ELSE
    LET k == HexIndex(i.v)
        d == i.m.data
    IN  IF k >= Len(d) THEN Fail(StackUnderflow, i.m)
        ELSE Ok([i.m EXCEPT !.data = <<d[k + 1]>> \o SubSeq(d, 1, k) \o Drop(d, k + 1)])

Builtin_Drop(m) ==
    LET w == pop(m, "any") IN
    IF ~w.ok THEN Fail(w.err, w.m) ELSE Ok(w.m)

Builtin_Clear(m) == Ok([m EXCEPT !.data = <<>>])

Builtin_Strcat(m) ==
    LET lhs == pop(m, "any") IN
    IF ~lhs.ok THEN Fail(lhs.err, lhs.m) ELSE
    LET rhs == pop(lhs.m, "any") IN
    IF ~rhs.ok THEN Fail(rhs.err, rhs.m)
    ELSE Ok(push(rhs.m, WStr(into_string(lhs.v) \o into_string(rhs.v))))

Builtin_Lines(m) ==
    LET string == pop(m, "as_str") IN
    IF ~string.ok THEN Fail(string.err, string.m)
    ELSE LET ls == str_lines(string.v) IN
         Ok(push(string.m, WList([k \in 1..Len(ls) |-> WStr(ls[k])])))

Builtin_Hex(m) ==
    LET h == pop(m, "into_hex") IN
    IF ~h.ok THEN Fail(h.err, h.m) ELSE Ok(push(h.m, WHex(h.v)))

Builtin_Int(m) ==
    LET i == pop(m, "into_int") IN
    IF ~i.ok THEN Fail(i.err, i.m) ELSE Ok(push(i.m, WInt(i.v)))

\* the closures handed to int_binop: the word they yield, an error, or a panic
BinOp(op, x, y, host) ==
    CASE op = "OpAdd" ->
            IF AddOverflows(x, y) /\ host.ovf = "panic" THEN [res |-> "Panic"]
            ELSE [res |-> "Ok", w |-> WInt(WrapAdd(x, y))]
      [] op = "OpSub" ->
            IF SubOverflows(x, y) /\ host.ovf = "panic" THEN [res |-> "Panic"]
            ELSE [res |-> "Ok", w |-> WInt(WrapSub(x, y))]
      [] op = "OpMul" ->
            IF MulOverflows(x, y) /\ host.ovf = "panic" THEN [res |-> "Panic"]
            ELSE [res |-> "Ok", w |-> WInt(WrapMul(x, y))]
      [] op = "OpDiv" ->
            LET q == checked_div(x, y) IN
            IF q.some THEN [res |-> "Ok", w |-> WInt(q.v)]
            ELSE [res |-> "Err", x |-> DivideByZero]
      [] op = "OpGt" -> [res |-> "Ok", w |-> FromBool(x > y)]
      [] op = "OpLt" -> [res |-> "Ok", w |-> FromBool(x < y)]

\* Shell::int_binop
int_binop(m, op, host) ==
    LET lhs == pop(m, "into_int") IN
    IF ~lhs.ok THEN Fail(lhs.err, lhs.m) ELSE
    LET rhs == pop(lhs.m, "into_int") IN
    IF ~rhs.ok THEN Fail(rhs.err, rhs.m) ELSE
    LET r == BinOp(op, lhs.v, rhs.v, host) IN
    CASE r.res = "Ok" -> Ok(push(rhs.m, r.w))
      [] r.res = "Err" -> Fail(r.x, rhs.m)
      [] r.res = "Panic" -> Panic(rhs.m)

Builtin_OpNeg(m, host) ==
    LET positive == pop(m, "as_int") IN
    IF ~positive.ok THEN Fail(positive.err, positive.m)
    ELSE IF NegOverflows(positive.v) /\ host.ovf = "panic" THEN Panic(positive.m)
    ELSE Ok(push(positive.m, WInt(WrapNeg(positive.v))))

Builtin_OpEql(m) ==
    LET lhs == pop(m, "any") IN
    IF ~lhs.ok THEN Fail(lhs.err, lhs.m) ELSE
    LET rhs == pop(lhs.m, "any") IN
    IF ~rhs.ok THEN Fail(rhs.err, rhs.m)
    ELSE Ok(push(rhs.m, FromBool(lhs.v = rhs.v)))

\* an infix marker that puts the operands back in the order rhs, lhs
Builtin_InfixExpr_swapped(m) ==
    LET rhs == code_pop(m) IN
    IF ~rhs.ok THEN Fail(rhs.err, rhs.m) ELSE
    LET op == code_pop(rhs.m) IN
    IF ~op.ok THEN Fail(op.err, op.m) ELSE
    LET lhs == code_pop(op.m) IN
    IF ~lhs.ok THEN Fail(lhs.err, lhs.m) ELSE
    LET open == code_pop(lhs.m) IN
    IF open.ok /\ open.v = WAtom(<<"(", "(">>)
    THEN Ok([open.m EXCEPT !.code = @ \o <<op.v, rhs.v, lhs.v>>])
    ELSE Fail(MacroFailed, open.m)

Builtin_InfixExpr(m) ==
    LET rhs == code_pop(m) IN
    IF ~rhs.ok THEN Fail(rhs.err, rhs.m) ELSE
    LET op == code_pop(rhs.m) IN
    IF ~op.ok THEN Fail(op.err, op.m) ELSE
    LET lhs == code_pop(op.m) IN
    IF ~lhs.ok THEN Fail(lhs.err, lhs.m) ELSE
    LET open == code_pop(lhs.m) IN
    IF open.ok /\ open.v = WAtom(<<"(", "(">>)
    THEN Ok([open.m EXCEPT !.code = @ \o <<op.v, lhs.v, rhs.v>>])
    ELSE Fail(MacroFailed, open.m)

\* Shell::do_builtin
do_builtin(op, m, host) ==
    CASE op = "Bye" -> Builtin_Bye(m)
      [] op = "Assign" -> Builtin_Assign(m)
      [] op = "Eval" -> Builtin_Eval(m)
      [] op = "Expand" -> Builtin_Expand(m)
      [] op = "If" -> Builtin_If(m)
      [] op = "Try" -> Builtin_Try(m)
      [] op = "PopEH" -> Builtin_PopEH(m)
      [] op = "Quote" -> Builtin_Quote(m)
      [] op = "Explode" -> Builtin_Explode(m)
      [] op = "Capture" -> Builtin_Capture(m)
      [] op = "Debug" -> Builtin_Debug(m)
      [] op = "Inspect" -> Builtin_Inspect(m)
      [] op = "Len" -> Builtin_Len(m)
      [] op = "Append" -> Builtin_Append(m)
      [] op = "Push" -> Builtin_Push(m)
      [] op = "Pop" -> Builtin_Pop(m)
      [] op = "Shift" -> Builtin_Shift(m)
      [] op = "Unshift" -> Builtin_Unshift(m)
      [] op = "Parse" -> Builtin_Parse(m)
      [] op = "Echo" -> Builtin_Echo(m)
      [] op = "Prompt" -> Builtin_Prompt(m, host)
      [] op = "Command" -> Builtin_Command(m, host)
      [] op = "Load" -> Builtin_Load(m, host)
      [] op = "Flatten" -> Builtin_Flatten(m)
      [] op = "Pick" -> Builtin_Pick(m)
      [] op = "Roll" -> Builtin_Roll(m)
      [] op = "Drop" -> Builtin_Drop(m)
      [] op = "Clear" -> Builtin_Clear(m)
      [] op = "Strcat" -> Builtin_Strcat(m)
      [] op = "Lines" -> Builtin_Lines(m)
      [] op = "Hex" -> Builtin_Hex(m)
      [] op = "Int" -> Builtin_Int(m)
      [] op \in {"OpAdd", "OpSub", "OpMul", "OpDiv", "OpGt", "OpLt"} ->
            int_binop(m, op, host)
      [] op = "OpNeg" -> Builtin_OpNeg(m, host)
      [] op = "OpEql" -> Builtin_OpEql(m)
      [] op = "InfixExpr" -> Builtin_InfixExpr(m)

\* a call that puts the body of the word below the code that is waiting
call_interpreted_below(m, def) ==
    IF Len(m.data) < def.spec.input THEN Fail(StackUnderflow, m)
    ELSE IF def.word.t = "List" THEN Ok([m EXCEPT !.code = def.word.l \o @])
    ELSE Ok([m EXCEPT !.code = Append(@, def.word)])

\* a call that checks the depth of the data stack for exact signatures only
call_interpreted_exactonly(m, def) ==
    IF def.spec.exact /\ Len(m.data) < def.spec.input THEN Fail(StackUnderflow, m)
    ELSE IF def.word.t = "List" THEN Ok(load(m, def.word.l))
    ELSE Ok([m EXCEPT !.code = Append(@, def.word)])

\* a call that does not check the depth of the data stack
call_interpreted_nocheck(m, def) ==
    IF def.word.t = "List" THEN Ok(load(m, def.word.l))
    ELSE Ok([m EXCEPT !.code = Append(@, def.word)])

\* an Interpreted binding met by the loop of Shell::run
call_interpreted(m, def) ==
    IF Len(m.data) < def.spec.input THEN Fail(StackUnderflow, m)
    ELSE IF def.word.t = "List" THEN Ok(load(m, def.word.l))
    ELSE Ok([m EXCEPT !.code = Append(@, def.word)])

\* an or_else that recovers with the oldest snapshot
or_else_fifo(name, r) ==
    IF r.res # "Err" THEN r
    ELSE IF r.m.restore # <<>>
    THEN LET env == Head(r.m.restore)
             m1 == [r.m EXCEPT !.restore = Tail(@)]
         IN  Ok(push(recover(m1, env), WStr(Diagnostic(name, r.err))))
    ELSE r

\* the `or_else` of Shell::run: an error is recovered when a snapshot exists
or_else(name, r) ==
    IF r.res # "Err" THEN r
    ELSE IF r.m.restore # <<>>
    THEN LET env == Last(r.m.restore)
             m1 == [r.m EXCEPT !.restore = Front(@)]
         IN  Ok(push(recover(m1, env), WStr(Diagnostic(name, r.err))))
    ELSE r

\* the body of `while let Some(word) = self.code.pop()` before the or_else,
\* for a machine whose code stack is not empty
eval_word(m, host) ==
    LET word == Last(m.code)
        m0 == [m EXCEPT !.code = Front(@)]
    IN  IF word.t # "Atom" THEN Ok(push(m0, word))
        ELSE LET def == lookup(m0, word.a) IN
             IF ~def.ok THEN Fail(def.err, m0)
             ELSE IF def.v.k = "Primitive" THEN do_builtin(def.v.op, m0, host)
             ELSE call_interpreted(m0, def.v)

----------------------------------------------------------------------------
(* The inputs of the model *)

\* the characters of the generated input texts of the parser
PChars == {"a", "1", "=", "{", "}", ";", " ", "\"", "#", "\n"}

\* foo;bar;baz
PText1 ==
    <<"f", "o", "o", ";", "b", "a", "r", ";", "b", "a", "z">>
\* baz bar foo
PText2 ==
    <<"b", "a", "z", " ", "b", "a", "r", " ", "f", "o", "o">>
\* k= 1
PText3 ==
    <<"k", "=", " ", "1">>
\* k = 1
PText4 ==
    <<"k", " ", "=", " ", "1">>
\* {}{}{}
PText5 ==
    <<"{", "}", "{", "}", "{", "}">>
\* { } { } { }
PText6 ==
    <<"{", " ", "}", " ", "{", " ", "}", " ", "{", " ", "}">>
\* {+ 1 2}
PText7 ==
    <<"{", "+", " ", "1", " ", "2", "}">>
\* { + 1 2 }
PText8 ==
    <<"{", " ", "+", " ", "1", " ", "2", " ", "}">>
\* a == b
PText9 ==
    <<"a", " ", "=", "=", " ", "b">>
\* {a;{b \n c}}
PText10 ==
    <<"{", "a", ";", "{", "b", "\n", "c", "}", "}">>
\* -5 +7 #Ff "x y" # c
PText11 ==
    <<"-", "5", " ", "+", "7", " ", "#", "F", "f", " ", "\"", "x", " ", "y", "\"", " ", "#", " ", "c">>
\* #!x \n 1
PText12 ==
    <<"#", "!", "x", "\n", "1">>
PCurated ==
    {PText1, PText2, PText3, PText4, PText5, PText6, PText7, PText8, PText9, PText10, PText11, PText12}

PTexts == SeqsUpTo(PChars, MaxLen) \cup PCurated

\* source texts loaded into the Shell
\* + 2 2
Src_add ==
    <<"+", " ", "2", " ", "2">>
\* / 4 0
Src_div0 ==
    <<"/", " ", "4", " ", "0">>
\* try { "ok" } { + 1 "x" } \n 5
Src_try_ok ==
    <<"t", "r", "y", " ", "{", " ", "\"", "o", "k", "\"", " ", "}", " ", "{", " ", "+", " ", "1", " ", "\"", "x", "\"", " ", "}", "\n", "5">>
\* 7 \n k = 1 \n try { 8; k = 2; + 1 "x" } { 9 } \n k
Src_try_fail ==
    <<"7", "\n", "k", " ", "=", " ", "1", "\n", "t", "r", "y", " ", "{", " ", "8", ";", " ", "k", " ", "=", " ", "2", ";", " ", "+", " ", "1", " ", "\"", "x", "\"", " ", "}", " ", "{", " ", "9", " ", "}", "\n", "k">>
\* 1 \n try { 2; try { 3; nope } { 4 }; 5 } { 6 } \n 7
Src_try_nested ==
    <<"1", "\n", "t", "r", "y", " ", "{", " ", "2", ";", " ", "t", "r", "y", " ", "{", " ", "3", ";", " ", "n", "o", "p", "e", " ", "}", " ", "{", " ", "4", " ", "}", ";", " ", "5", " ", "}", " ", "{", " ", "6", " ", "}", "\n", "7">>
\* try { quote } { } \n nope
Src_try_quote ==
    <<"t", "r", "y", " ", "{", " ", "q", "u", "o", "t", "e", " ", "}", " ", "{", " ", "}", "\n", "n", "o", "p", "e">>
\* 3 \n try { bye } { } \n 4
Src_try_bye ==
    <<"3", "\n", "t", "r", "y", " ", "{", " ", "b", "y", "e", " ", "}", " ", "{", " ", "}", "\n", "4">>
\* if 1 { 2 } { 3 } \n if 0 { 4 } { 5 }
Src_if ==
    <<"i", "f", " ", "1", " ", "{", " ", "2", " ", "}", " ", "{", " ", "3", " ", "}", "\n", "i", "f", " ", "0", " ", "{", " ", "4", " ", "}", " ", "{", " ", "5", " ", "}">>
\* k = { + 1 } \n k 2
Src_word ==
    <<"k", " ", "=", " ", "{", " ", "+", " ", "1", " ", "}", "\n", "k", " ", "2">>
\* k = { k } \n k
Src_loop ==
    <<"k", " ", "=", " ", "{", " ", "k", " ", "}", "\n", "k">>
\* fact = { if == 0 pick 2 { 1 drop } { * fact - pick 1 1 } } \n fact n
\* a recursive factorial written with the built-ins only; the file
\* tests/valid/factorial.\iv of tests/run.rs 38 is not part of the sources
Src_fact(n) ==
    <<"f", "a", "c", "t", " ", "=", " ", "{", " ", "i", "f", " ", "=", "=", " ", "0", " ", "p", "i", "c", "k", " ", "2", " ", "{", " ", "1", " ", "d", "r", "o", "p", " ", "}", " ", "{", " ", "*", " ", "f", "a", "c", "t", " ", "-", " ", "p", "i", "c", "k", " ", "1", " ", "1", " ", "}", " ", "}", "\n", "f", "a", "c", "t", " ">>
    \o ShowInt(n)
\* k = nope quote \n k
Src_atom ==
    <<"k", " ", "=", " ", "n", "o", "p", "e", " ", "q", "u", "o", "t", "e", "\n", "k">>
\* k = drop quote \n 5 \n k
Src_alias ==
    <<"k", " ", "=", " ", "d", "r", "o", "p", " ", "q", "u", "o", "t", "e", "\n", "5", "\n", "k">>
\* k = { nope + } \n k
Src_inexact ==
    <<"k", " ", "=", " ", "{", " ", "n", "o", "p", "e", " ", "+", " ", "}", "\n", "k">>
\* k = { + 1 } \n k
Src_short ==
    <<"k", " ", "=", " ", "{", " ", "+", " ", "1", " ", "}", "\n", "k">>
\* expand { x y } { + x { y x z } } 1 2
Src_expand ==
    <<"e", "x", "p", "a", "n", "d", " ", "{", " ", "x", " ", "y", " ", "}", " ", "{", " ", "+", " ", "x", " ", "{", " ", "y", " ", "x", " ", "z", " ", "}", " ", "}", " ", "1", " ", "2">>
\* expand { x x } { x "x" } { x } 3
Src_expand_twice ==
    <<"e", "x", "p", "a", "n", "d", " ", "{", " ", "x", " ", "x", " ", "}", " ", "{", " ", "x", " ", "\"", "x", "\"", " ", "}", " ", "{", " ", "x", " ", "}", " ", "3">>
\* expand { x y } { x } 1
Src_expand_short ==
    <<"e", "x", "p", "a", "n", "d", " ", "{", " ", "x", " ", "y", " ", "}", " ", "{", " ", "x", " ", "}", " ", "1">>
\* explode { 1 2 } 7
Src_explode ==
    <<"e", "x", "p", "l", "o", "d", "e", " ", "{", " ", "1", " ", "2", " ", "}", " ", "7">>
\* roll 2 5 6 7
Src_roll ==
    <<"r", "o", "l", "l", " ", "2", " ", "5", " ", "6", " ", "7">>
\* pick #1 5 6 7
Src_pick ==
    <<"p", "i", "c", "k", " ", "#", "1", " ", "5", " ", "6", " ", "7">>
\* pick -1 5
Src_pick_neg ==
    <<"p", "i", "c", "k", " ", "-", "1", " ", "5">>
\* 5 (( 6 - 2 )) 9
Src_infix ==
    <<"5", " ", "(", "(", " ", "6", " ", "-", " ", "2", " ", ")", ")", " ", "9">>
\* 7 6 - 2 ))
Src_infix_open ==
    <<"7", " ", "6", " ", "-", " ", "2", " ", ")", ")">>
\* eval parse "k = 1"
Src_parse_def ==
    <<"e", "v", "a", "l", " ", "p", "a", "r", "s", "e", " ", "\"", "k", " ", "=", " ", "1", "\"">>
\* eval expand { n } { n = 1 } k quote
Src_expand_def ==
    <<"e", "v", "a", "l", " ", "e", "x", "p", "a", "n", "d", " ", "{", " ", "n", " ", "}", " ", "{", " ", "n", " ", "=", " ", "1", " ", "}", " ", "k", " ", "q", "u", "o", "t", "e">>
\* "" = 1
Src_empty_name ==
    <<"\"", "\"", " ", "=", " ", "1">>
\* try { 2; try { 3; nope } { zap }; 5 } { 6 } \n 7
Src_try_catch ==
    <<"t", "r", "y", " ", "{", " ", "2", ";", " ", "t", "r", "y", " ", "{", " ", "3", ";", " ", "n", "o", "p", "e", " ", "}", " ", "{", " ", "z", "a", "p", " ", "}", ";", " ", "5", " ", "}", " ", "{", " ", "6", " ", "}", "\n", "7">>
\* inspect drop quote
Src_inspect ==
    <<"i", "n", "s", "p", "e", "c", "t", " ", "d", "r", "o", "p", " ", "q", "u", "o", "t", "e">>
\* / -2147483648 -1
Src_div_min ==
    <<"/", " ", "-", "2", "1", "4", "7", "4", "8", "3", "6", "4", "8", " ", "-", "1">>
\* / -7 2
Src_div_trunc ==
    <<"/", " ", "-", "7", " ", "2">>
SrcTexts ==
    {Src_add, Src_div0, Src_try_ok, Src_try_fail, Src_try_nested, Src_try_quote, Src_try_bye, Src_if, Src_word, Src_loop,
     Src_atom, Src_alias, Src_inexact, Src_short, Src_expand, Src_expand_twice, Src_expand_short, Src_explode, Src_roll, Src_pick, Src_pick_neg, Src_infix, Src_infix_open, Src_parse_def, Src_expand_def, Src_empty_name, Src_try_catch, Src_inspect, Src_div_min, Src_div_trunc}
    \cup {Src_fact(n) : n \in 0..MaxFact}

\* sources of several lines: the word in column c of line k is the Int 10k+c,
\* a line may end in a comment, the lines are separated by ';' or '\n', and
\* the whole may be the block of an `eval { ... }`
LineShapes == {[n |-> n, cmt |-> c] : n \in 0..2, c \in BOOLEAN}

LineSpecs ==
    UNION {{[lines |-> L, seps |-> S, nested |-> b] :
                L \in [1..n -> LineShapes], S \in [1..(n - 1) -> {";", "\n"}],
                b \in BOOLEAN} : n \in 1..MaxLines}

LineText(k, shape) ==
    LET ws == [c \in 1..shape.n |-> ShowInt(10 * k + c)] IN
    (IF shape.n = 0 THEN <<>>
     ELSE IF shape.n = 1 THEN ws[1]
     ELSE ws[1] \o <<" ">> \o ws[2])
    \o (IF shape.cmt THEN <<" ", "#", " ", "c">> ELSE <<>>)

RECURSIVE LinesText(_, _)
LinesText(spec, k) ==
    IF k > Len(spec.lines) THEN <<>>
    ELSE LineText(k, spec.lines[k])
         \o (IF k < Len(spec.lines) THEN <<spec.seps[k]>> ELSE <<>>)
         \o LinesText(spec, k + 1)

SpecText(spec) ==
    IF spec.nested
    THEN <<"e", "v", "a", "l", " ", "{">> \o LinesText(spec, 1) \o <<"}">>
    ELSE LinesText(spec, 1)

\* generated programs: a built-in or an unbound atom in prefix position, its
\* operand words after it, and the code that lies below it on the code stack
N_nope == <<"n", "o", "p", "e">>
N_k == <<"k">>

OpNames == {b.name : b \in BuiltinTable} \cup {N_nope}

ArgWords ==
    {WInt(0), WInt(2), WHex(<<1>>), WHex(<<8, 0, 0, 0, 0, 0, 0, 0>>), WStr(<<"x">>),
     WList(<<>>), WList(<<WInt(1)>>), WList(<<WAtom(N_nope), WInt(5)>>)}

BelowSeqs ==
    {<<>>, <<WAtom(N_k)>>, <<WInt(7)>>, <<WAtom(<<"d", "r", "o", "p">>)>>,
     <<WAtom(<<"p", "o", "p">>)>>}

\* generated definitions: k is bound to a first body, then bound again to a
\* body of up to MaxBody words that may call the first k
BodyWords ==
    {WInt(1), WAtom(<<"+">>), WAtom(<<"d", "r", "o", "p">>), WAtom(<<"p", "o", "p">>),
     WAtom(<<"i", "f">>), WAtom(N_nope), WAtom(N_k)}

FirstBodies == {<<WInt(1)>>, <<WAtom(<<"+">>)>>, <<WAtom(N_nope)>>}

DefPrograms ==
    {<<WAtom(N_k), WAtom(<<"=">>), WList(body), WAtom(N_k), WAtom(<<"=">>), WList(first)>> :
        body \in SeqsUpTo(BodyWords, MaxBody), first \in FirstBodies}

WordPrograms ==
    {below \o <<WAtom(n)>> \o args :
        below \in BelowSeqs, n \in OpNames, args \in SeqsUpTo(ArgWords, MaxArgs)}

----------------------------------------------------------------------------
(* Initial states *)

NoWord == [t |-> "None"]
NoEvent == [kind |-> "none", word |-> NoWord, op |-> "", err |-> NoErr,
            rec |-> FALSE, res |-> "Ok"]
NoSource == [kind |-> "none", text |-> <<>>]

\* Shell::new without the words of the standard library stdlib.\iv, which is
\* not part of the sources: the dictionary holds the built-ins
ShellNew == Shell(default_bindings, <<>>, <<>>, <<>>)

PIdle == PState(<<>>, <<>>, "Idle", <<>>)

ShellInit ==
    /\ dict = ShellNew.dict
    /\ data = ShellNew.data
    /\ code = ShellNew.code
    /\ restore = ShellNew.restore
    /\ status = "new"
    /\ err = NoErr
    /\ source = NoSource
    /\ ev = NoEvent
    /\ pre = [dict |-> ShellNew.dict, data |-> <<>>, code |-> <<>>,
              restore |-> <<>>, tries |-> <<>>]
    /\ tries = <<>>
    /\ consumed = <<>>
    /\ steps = 0

ParserIdle ==
    /\ ptext = <<>>
    /\ ps = PIdle
    /\ parm = "Idle"
    /\ depth = 0
    /\ shown = [ok |-> FALSE, text |-> <<>>]
    /\ reparsed = PIdle

\* the Shell after construction; no parse is running
Init == ShellInit /\ ParserIdle

\* parse is called on an input text
ParseInit ==
    /\ ShellInit
    /\ ptext \in PTexts
    /\ ps = PStart(ptext)
    /\ parm = "Start"
    /\ depth = 0
    /\ shown = [ok |-> FALSE, text |-> <<>>]
    /\ reparsed = PIdle

----------------------------------------------------------------------------
(* The parser, one iteration of its loop per step *)

Scan(arm, next, d) ==
    /\ ps.res = "Run"
    /\ ArmOf(ps) = arm
    /\ ps' = next
    /\ parm' = arm
    /\ depth' = depth + d
    /\ UNCHANGED <<ptext, shown, reparsed>>
    /\ UNCHANGED svars

ScanOpenBrace == Scan("OpenBrace", ArmOpenBrace(ps), 1)
ScanCloseBrace == Scan("CloseBrace", ArmCloseBrace(ps), -1)
ScanQuote == Scan("Quote", ArmQuote(ps), 0)
ScanNewline == Scan("Newline", ArmNewline(ps), 0)
ScanWhitespace == Scan("Whitespace", ArmWhitespace(ps), 0)
ScanWord == Scan("Word", ArmWord(ps), 0)
ScanEnd == Scan("End", ParseEnd(ps), 0)

\* the parsed program printed: words.flatten(" ")
Show ==
    /\ ps.res = "Ok"
    /\ ~shown.ok
    /\ shown' = [ok |-> TRUE, text |-> flatten(ps.prog, <<" ">>)]
    /\ UNCHANGED <<ptext, ps, parm, depth, reparsed>>
    /\ UNCHANGED svars

\* the printed text parsed again
Reparse ==
    /\ shown.ok
    /\ reparsed.res = "Idle"
    /\ reparsed' = parse(shown.text)
    /\ UNCHANGED <<ptext, ps, parm, depth, shown>>
    /\ UNCHANGED svars

ParseNext ==
    \/ ScanOpenBrace
    \/ ScanCloseBrace
    \/ ScanQuote
    \/ ScanNewline
    \/ ScanWhitespace
    \/ ScanWord
    \/ ScanEnd
    \/ Show
    \/ Reparse

ParseSpec == ParseInit /\ [][ParseNext]_vars

----------------------------------------------------------------------------
(* The Shell: load, then run, one iteration of its loop per step *)

\* env.load(parse(&source).unwrap().into_iter()): tests/run.rs 13-15,
\* src/src/main.rs 22, 36
LoadText(kind, text) ==
    LET program == parse(text) IN
    /\ status = "new"
    /\ source' = [kind |-> kind, text |-> text]
    /\ IF program.res = "Ok"
       THEN /\ code' = load(Shell(dict, data, code, restore), program.prog).code
            /\ status' = "running"
       ELSE /\ code' = code
            /\ status' = "panic"
    /\ UNCHANGED <<dict, data, restore, err, ev, pre, tries, consumed, steps>>
    /\ UNCHANGED pvars

LoadSource == status = "new" /\ \E text \in SrcTexts : LoadText("text", text)

LoadLines ==
    status = "new" /\ \E spec \in LineSpecs : LoadText("lines", SpecText(spec))

\* a program handed to load as words: src/src/main.rs 27-36
LoadProgram(kind, program) ==
    /\ source' = [kind |-> kind, text |-> <<>>]
    /\ code' = load(Shell(dict, data, code, restore), program).code
    /\ status' = "running"
    /\ UNCHANGED <<dict, data, restore, err, ev, pre, tries, consumed, steps>>
    /\ UNCHANGED pvars

LoadWords == status = "new" /\ \E program \in WordPrograms : LoadProgram("words", program)

LoadDefs == status = "new" /\ \E program \in DefPrograms : LoadProgram("defs", program)

Machine == Shell(dict, data, code, restore)

\* one iteration of the loop of Shell::run, with the history it leaves: raw is
\* the outcome of the loop body, r the outcome after its or_else
Iterate(kind, op, host) ==
    \E raw \in {eval_word(Machine, host)} :
    \E r \in {IF Last(code).t = "Atom" THEN or_else(Last(code).a, raw) ELSE raw} :
        /\ dict' = r.m.dict
        /\ data' = r.m.data
        /\ code' = r.m.code
        /\ restore' = r.m.restore
        /\ status' = (CASE r.res = "Ok" -> "running"
                        [] r.res = "Err" -> "err"
                        [] r.res = "Panic" -> "panic")
        /\ err' = r.err
        /\ ev' = [kind |-> kind, word |-> Last(code), op |-> op, err |-> raw.err,
                  rec |-> (raw.res = "Err" /\ r.res = "Ok"), res |-> r.res]
        /\ pre' = [dict |-> dict, data |-> data, code |-> code,
                   restore |-> restore, tries |-> tries]
        /\ tries' = IF Len(r.m.restore) > Len(restore)
                    THEN Append(tries, [dict |-> dict, data |-> data, code |-> code])
                    ELSE SubSeq(tries, 1, Len(r.m.restore))
        /\ consumed' = Append(consumed, Last(code))
        /\ steps' = steps + 1
        /\ UNCHANGED source
        /\ UNCHANGED pvars

Running == status = "running" /\ code # <<>> /\ steps < MaxSteps

\* the word is not an atom: it is pushed on the data stack
RunLiteral ==
    /\ Running
    /\ Last(code).t # "Atom"
    /\ Iterate("literal", "", [ovf |-> "wrap", io |-> NoIo])

\* the atom has no binding
RunUnbound ==
    /\ Running
    /\ Last(code).t = "Atom"
    /\ Last(code).a \notin DOMAIN dict
    /\ Iterate("unbound", "", [ovf |-> "wrap", io |-> NoIo])

\* the atom is bound to an interpreted word
RunInterpreted ==
    /\ Running
    /\ Last(code).t = "Atom"
    /\ Last(code).a \in DOMAIN dict
    /\ dict[Last(code).a].k = "Interpreted"
    /\ Iterate("interpreted", "", [ovf |-> "wrap", io |-> NoIo])

\* the atom is bound to a built-in
RunPrimitive ==
    /\ Running
    /\ Last(code).t = "Atom"
    /\ Last(code).a \in DOMAIN dict
    /\ dict[Last(code).a].k = "Primitive"
    /\ \E host \in Hosts(dict[Last(code).a].op) :
            Iterate("primitive", dict[Last(code).a].op, host)

\* the code stack is empty: run returns Ok(())
RunReturn ==
    /\ status = "running"
    /\ code = <<>>
    /\ status' = "ok"
    /\ ev' = [NoEvent EXCEPT !.kind = "return"]
    /\ pre' = [dict |-> dict, data |-> data, code |-> code,
               restore |-> restore, tries |-> tries]
    /\ UNCHANGED <<dict, data, code, restore, err, source, tries, consumed, steps>>
    /\ UNCHANGED pvars

Next ==
    \/ LoadSource
    \/ LoadLines
    \/ LoadWords
    \/ LoadDefs
    \/ RunLiteral
    \/ RunUnbound
    \/ RunInterpreted
    \/ RunPrimitive
    \/ RunReturn

Spec == Init /\ [][Next]_vars


----------------------------------------------------------------------------
(* The parser's claims, checked under ParseSpec *)

\* texts made of words and blanks only: one line, no block, string or comment
PlainText(t) == \A k \in 1..Len(t) : t[k] \notin {";", "\n", "{", "}", "\"", "#"}

\* the text the parser has consumed so far
Scanned == SubSeq(ptext, 1, Len(ptext) - Len(ps.s))

\* C5: parse flattens the lines of every block in reverse order of appearance
\* and keeps the encounter order of the words of one line. (a) When the parser
\* has just ended a line at a ';' or '\n' and the text before it and the text
\* after it are programs, the whole text parses to the words of the text after
\* it followed by the words of the text before it. (b) A text of the form
\* "{" t "}" with t a program parses to the one list of the words of t, so the
\* same order holds inside a nested block. (c) A one-line text split at a blank
\* parses to the words of its first part followed by those of its second part.
\* (d) "foo;bar;baz" parses to the words of "baz bar foo".
C5_LinesReversed ==
    /\ (parm = "Newline" /\ ps.res = "Run") =>
            LET t1 == Front(Scanned)
                t2 == ps.s
                whole == parse(ptext)
            IN  (parse(t1).res = "Ok" /\ parse(t2).res = "Ok")
                    => /\ whole.res = "Ok"
                       /\ whole.prog = parse(t2).prog \o parse(t1).prog
    /\ (ps.res = "Ok" /\ Len(ptext) >= 2 /\ Head(ptext) = "{" /\ Last(ptext) = "}") =>
            LET inner == parse(SubSeq(ptext, 2, Len(ptext) - 1)) IN
            inner.res = "Ok" => ps.prog = <<WList(inner.prog)>>
    /\ (ps.res = "Ok" /\ PlainText(ptext)) =>
            \A k \in 1..Len(ptext) :
                ptext[k] = " " =>
                    ps.prog = parse(SubSeq(ptext, 1, k - 1)).prog
                              \o parse(SubSeq(ptext, k + 1, Len(ptext))).prog
    /\ (ps.res = "Ok" /\ ptext = PText1) => ps.prog = parse(PText2).prog

\* a parse of "foo;bar;baz" has finished with the words baz bar foo
C5_Witness ==
    /\ ptext = PText1
    /\ ps.res = "Ok"
    /\ ps.prog = <<WAtom(<<"b", "a", "z">>), WAtom(<<"b", "a", "r">>),
                  WAtom(<<"f", "o", "o">>)>>

\* C9: parse rejects unbalanced braces. A '}' read when no '{' is open makes
\* parse return MissingOpenBrace; the end of the input reached while a '{' is
\* open makes parse return MissingCloseBrace; parse returns Ok only at the end
\* of the input, with every '{' closed and the block stack empty after the
\* top-level block is flattened.
C9_UnbalancedBraces ==
    /\ (parm = "CloseBrace" /\ depth < 0) => ps.res = "MissingOpenBrace"
    /\ (parm = "End" /\ depth > 0) => ps.res = "MissingCloseBrace"
    /\ ps.res = "Ok" => (parm = "End" /\ depth = 0 /\ ps.stack = <<>>)

\* a parse has ended at a '}' that closes nothing
C9_Witness == parm = "CloseBrace" /\ depth < 0 /\ ps.res = "MissingOpenBrace"

\* C10: the words of a parsed program, printed with Display and joined by
\* blanks, parse again to a structurally equal word sequence.
C10_RoundTrip ==
    reparsed.res # "Idle" => (reparsed.res = "Ok" /\ reparsed.prog = ps.prog)

\* the round trip of a program holding an Int, a Hex and a Str, and of one
\* holding nested lists of atoms
C10_Witness ==
    /\ reparsed.res = "Ok"
    /\ reparsed.prog = ps.prog
    /\ ptext = PText11
    /\ {ps.prog[k].t : k \in 1..Len(ps.prog)} = {"Int", "Hex", "Str"}


----------------------------------------------------------------------------
(* The Shell's claims, checked under Spec *)

\* the last step was an iteration of the loop of run on the built-in op
Ran(op) == ev.kind = "primitive" /\ ev.op = op

\* the words into_int accepts: an Int, or a Hex no larger than i32::max_value()
Coercible(w) == w.t = "Int" \/ (w.t = "Hex" /\ HexFitsI32(w.h))

\* C1: a word that fails while a recovery snapshot exists does not end the
\* run. With g the machine as it was when the innermost active try was about
\* to run (its body and catch lists on top of the data stack, the atom try on
\* top of the code stack), after the failing iteration the data stack is the
\* diagnostic "<name> error: <message>" on top of the data stack of g without
\* the two lists, the dictionary is the dictionary of g, the code stack is the
\* code below the try followed by the catch list, and the snapshot is gone.
C1_TryRecovers ==
    ev.rec =>
        LET g == Last(pre.tries) IN
        /\ status = "running"
        /\ data = <<WStr(Diagnostic(ev.word.a, ev.err))>> \o Drop(g.data, 2)
        /\ dict = g.dict
        /\ code = Front(g.code) \o g.data[2].l
        /\ restore = Front(pre.restore)

\* a body that pushed a word and rebound k before it failed: the recovery
\* brings back the old binding of k and the old data stack
C1_Witness ==
    /\ ev.rec
    /\ ev.err.e = "CantCoerce"
    /\ source.text = Src_try_fail
    /\ pre.dict[N_k].word = WInt(2)
    /\ dict[N_k].word = WInt(1)
    /\ Len(pre.data) > Len(data)
    /\ Last(code) = WInt(9)

\* C3: an atom without a binding, met while no snapshot exists, makes run
\* return CantUnderstand(name); the data stack and the dictionary are as they
\* were, and the code stack has lost only the atom itself.
C3_UnboundAtom ==
    (ev.kind = "unbound" /\ pre.restore = <<>>) =>
        /\ status = "err"
        /\ err = CantUnderstand(ev.word.a)
        /\ data = pre.data
        /\ code = Front(pre.code)
        /\ dict = pre.dict
        /\ restore = <<>>

\* the unbound atom nope has ended a run that had words on both stacks
C3_Witness ==
    /\ ev.kind = "unbound"
    /\ pre.restore = <<>>
    /\ status = "err"
    /\ err = CantUnderstand(N_nope)
    /\ data # <<>>
    /\ code # <<>>

\* C6: '/' fails with DivideByZero whenever the divisor, the second word from
\* the top of the data stack, is zero, whatever the dividend on top of it; with
\* no snapshot the run then returns that error. The program "/ 4 0" never
\* completes and fails with DivideByZero; "+ 2 2" completes with Int(4) on top.
C6_DivideByZero ==
    /\ (/\ Ran("OpDiv")
        /\ Len(pre.data) >= 2
        /\ Coercible(pre.data[1])
        /\ pre.data[2] \in {WInt(0), WHex(<<0>>)})
            => /\ ev.err = DivideByZero
               /\ pre.restore = <<>> => (status = "err" /\ err = DivideByZero)
    /\ source.text = Src_div0 =>
            /\ status # "ok"
            /\ status \in {"err", "panic"} => (status = "err" /\ err = DivideByZero)
    /\ (source.text = Src_add /\ status = "ok") => Head(data) = WInt(4)

\* "/ 2 0" has ended the run with DivideByZero
C6_Witness ==
    /\ Ran("OpDiv")
    /\ Len(pre.data) >= 2
    /\ pre.data[1] = WInt(2)
    /\ pre.data[2] = WInt(0)
    /\ status = "err"
    /\ err = DivideByZero


\* the built-ins whose declared input arity is 1
ArityOne == {b.op : b \in {t \in BuiltinTable : Builtin_get_type(t.op).input = 1}}

\* C7 as the specification states it: every built-in of input arity 1 run on an
\* empty data stack fails with StackUnderflow and the host does not panic,
\* whatever the code stack holds.
C7_Original ==
    (ev.kind = "primitive" /\ ev.op \in ArityOne /\ pre.data = <<>>) =>
        /\ ev.res # "Panic"
        /\ ev.err = StackUnderflow

\* C7, amended: every built-in of input arity 1 other than '=' run on an empty
\* data stack fails with StackUnderflow and the host does not panic. '=' takes
\* its name from the code stack first: it fails with MacroFailed when no word
\* is left on the code stack, with WrongType when the next code word is not an
\* atom, and with StackUnderflow only when the next code word is an atom.
C7_ArityOneUnderflow ==
    (ev.kind = "primitive" /\ ev.op \in ArityOne /\ pre.data = <<>>) =>
        /\ ev.res # "Panic"
        /\ ev.op # "Assign" => ev.err = StackUnderflow
        /\ ev.op = "Assign" =>
            LET below == Front(pre.code) IN
            ev.err = (IF below = <<>> THEN MacroFailed
                      ELSE IF Last(below).t # "Atom" THEN WrongType(Last(below), "Atom")
                      ELSE StackUnderflow)

\* '=' has run on an empty data stack with nothing below it on the code stack
\* and has failed with MacroFailed
C7_Witness ==
    /\ Ran("Assign")
    /\ pre.data = <<>>
    /\ Len(pre.code) = 1
    /\ ev.err = MacroFailed
    /\ status = "err"

\* C8 as the specification states it: '+', '-', '*', '~', '==', '<' and '>'
\* fail with WrongType when one of their operands is not an Int.
C8_Original ==
    /\ (Ran("OpNeg") /\ Len(pre.data) >= 1 /\ pre.data[1].t # "Int")
            => ev.err.e = "WrongType"
    /\ (/\ ev.kind = "primitive"
        /\ ev.op \in {"OpAdd", "OpSub", "OpMul", "OpEql", "OpLt", "OpGt"}
        /\ Len(pre.data) >= 2
        /\ \E k \in 1..2 : pre.data[k].t # "Int")
            => ev.err.e = "WrongType"

\* C8, amended: '~' takes an Int and fails with WrongType on any other word.
\* '+', '-', '*', '<' and '>' convert each operand with into_int: an Int and a
\* Hex no larger than i32::max_value() are accepted, and the first operand that
\* is neither makes the operation fail with CantCoerce(word, Int), never with
\* WrongType. '==' accepts any two words, compares them structurally and never
\* fails on the type of an operand.
C8_IntOperands ==
    /\ (Ran("OpNeg") /\ Len(pre.data) >= 1) =>
            IF pre.data[1].t = "Int" THEN ev.err = NoErr
            ELSE ev.err = WrongType(pre.data[1], "Int")
    /\ (/\ ev.kind = "primitive"
        /\ ev.op \in {"OpAdd", "OpSub", "OpMul", "OpLt", "OpGt"}
        /\ Len(pre.data) >= 2) =>
            IF ~Coercible(pre.data[1]) THEN ev.err = CantCoerce(pre.data[1], "Int")
            ELSE IF ~Coercible(pre.data[2]) THEN ev.err = CantCoerce(pre.data[2], "Int")
            ELSE ev.err = NoErr
    /\ (Ran("OpEql") /\ Len(pre.data) >= 2) =>
            /\ ev.err = NoErr
            /\ data = <<FromBool(pre.data[1] = pre.data[2])>> \o Drop(pre.data, 2)

\* '+' has failed with CantCoerce on a Str operand, and not with WrongType
C8_Witness ==
    /\ Ran("OpAdd")
    /\ Len(pre.data) >= 2
    /\ pre.data[1] = WInt(2)
    /\ pre.data[2] = WStr(<<"x">>)
    /\ ev.err = CantCoerce(WStr(<<"x">>), "Int")


\* C2 as the specification states it: the popeh scheduled by a try runs right
\* after the last word of the body and before any code that followed the try,
\* discards the snapshot of that try, and keeps what the body did. With g the
\* machine as it was when the innermost active try was about to run, the
\* scheduled popeh lies at height Len(g.code) of the code stack: an iteration
\* that does not fail brings the code stack below that height only by running
\* that popeh, which pops the snapshot and leaves data stack, dictionary and
\* the code below it untouched.
C2_Original ==
    (/\ ev.kind \in {"literal", "interpreted", "primitive"}
     /\ ev.res = "Ok"
     /\ ~ev.rec
     /\ pre.tries # <<>>
     /\ Len(code) < Len(Last(pre.tries).code)) =>
        /\ Ran("PopEH")
        /\ ev.word = WAtom(<<"p", "o", "p", "e", "h">>)
        /\ Len(pre.code) = Len(Last(pre.tries).code)
        /\ restore = Front(pre.restore)
        /\ data = pre.data
        /\ dict = pre.dict
        /\ code = Front(Last(pre.tries).code)

\* the line and the column of a word of a source of several lines
LineOf(w) == w.i \div 10
ColumnOf(w) == w.i % 10

\* C4 as the specification states it: in a loaded source of several lines,
\* every word of an earlier line is consumed before any word of a later line,
\* at top level and inside a spliced block, and the words of one line are
\* consumed from the last to the first.
C4_Original ==
    source.kind = "lines" =>
        \A i, j \in 1..Len(consumed) :
            (i < j /\ consumed[i].t = "Int" /\ consumed[j].t = "Int") =>
                \/ LineOf(consumed[i]) < LineOf(consumed[j])
                \/ /\ LineOf(consumed[i]) = LineOf(consumed[j])
                   /\ ColumnOf(consumed[i]) > ColumnOf(consumed[j])


\* C11: pop and shift applied to the empty List fail with EmptyList, and with
\* no snapshot the run returns that error; len applied to the empty List
\* replaces it by Int(0).
C11_EmptyList ==
    /\ ((Ran("Pop") \/ Ran("Shift")) /\ pre.data # <<>> /\ Head(pre.data) = WList(<<>>)) =>
            /\ ev.err = EmptyList
            /\ pre.restore = <<>> => (status = "err" /\ err = EmptyList)
    /\ (Ran("Len") /\ pre.data # <<>> /\ Head(pre.data) = WList(<<>>)) =>
            /\ ev.err = NoErr
            /\ data = <<WInt(0)>> \o Tail(pre.data)

\* shift has ended a run on the empty List
C11_Witness ==
    /\ Ran("Shift")
    /\ pre.data = <<WList(<<>>)>>
    /\ status = "err"
    /\ err = EmptyList


\* C12: push followed by pop is a round trip. When push has just run without
\* error on a value v on top of a List L, and the next iteration runs pop, that
\* pop succeeds and the data stack is again what it was before the push: v on
\* top of L on top of everything that lay below.
C12_PushPop ==
    [][(/\ Ran("Push")
        /\ ev.err = NoErr
        /\ ev'.kind = "primitive"
        /\ ev'.op = "Pop")
            => /\ ev'.err = NoErr
               /\ data' = pre.data
               /\ dict' = dict]_vars

\* pop has run right after push and has given back the value 2 and the list
\* { 1 }
C12_Witness ==
    /\ Ran("Pop")
    /\ Len(consumed) >= 2
    /\ consumed[Len(consumed) - 1] = WAtom(<<"p", "u", "s", "h">>)
    /\ ev.err = NoErr
    /\ data = <<WInt(2), WList(<<WInt(1)>>)>>
    /\ pre.data = <<WList(<<WInt(1), WInt(2)>>)>>


\* the longest prefix of t made of '=' only
RECURSIVE EqRun(_)
EqRun(t) == IF t = <<>> \/ Head(t) # "=" THEN <<>> ELSE <<"=">> \o EqRun(Tail(t))

\* t with a blank written before and after every '{', '}', ';' and every run
\* of '='
RECURSIVE Spaced(_)
Spaced(t) ==
    IF t = <<>> THEN <<>>
    ELSE IF Head(t) \in {"{", "}", ";"}
    THEN <<" ", Head(t), " ">> \o Spaced(Tail(t))
    ELSE IF Head(t) = "="
    THEN <<" ">> \o EqRun(t) \o <<" ">> \o Spaced(Drop(t, Len(EqRun(t))))
    ELSE <<Head(t)>> \o Spaced(Tail(t))

\* C13: the parser breaks a word before and after a bare '=', keeps "==" one
\* atom, and lets '{', '}' and ';' delimit words without blanks. The texts of
\* the test parse alike: "k= 1" as "k = 1", "{}{}{}" as "{ } { } { }",
\* "{+ 1 2}" as "{ + 1 2 }", and "a == b" to the three atoms a, ==, b. In
\* general a text without string or comment parses to the same result as the
\* text with blanks written around every '{', '}', ';' and run of '='.
C13_WordBreaks ==
    /\ (ps.res # "Run" /\ ptext = PText3) =>
            (ps.res = "Ok" /\ ps.prog = parse(PText4).prog)
    /\ (ps.res # "Run" /\ ptext = PText5) =>
            (ps.res = "Ok" /\ ps.prog = parse(PText6).prog)
    /\ (ps.res # "Run" /\ ptext = PText7) =>
            (ps.res = "Ok" /\ ps.prog = parse(PText8).prog)
    /\ (ps.res # "Run" /\ ptext = PText9) =>
            ps.prog = <<WAtom(<<"a">>), WAtom(<<"=", "=">>), WAtom(<<"b">>)>>
    /\ (ps.res # "Run" /\ \A k \in 1..Len(ptext) : ptext[k] \notin {"\"", "#"}) =>
            /\ parse(Spaced(ptext)).res = ps.res
            /\ parse(Spaced(ptext)).prog = ps.prog

\* "{+ 1 2}" has parsed to the one list of the words +, 1, 2
C13_Witness ==
    /\ ptext = PText7
    /\ ps.res = "Ok"
    /\ ps.prog = <<WList(<<WAtom(<<"+">>), WInt(1), WInt(2)>>)>>


\* n!
RECURSIVE Factorial(_)
Factorial(n) == IF n = 0 THEN 1 ELSE n * Factorial(n - 1)

\* the body of the word fact of Src_fact
FactBody == Last(parse(Src_fact(0)).prog).l


\* the number of iterations of the loop of run that Src_fact(n) takes: two
\* for the definition, one for n, thirteen for each call with a positive
\* argument and ten for the call with 0
FactSteps(n) == 13 * n + 13

\* C14: the recursive interpreted word fact, defined with '=' and then called
\* with the Int n, runs to completion: no step fails, every call of fact puts
\* its body on the tail of the code stack and leaves the data stack alone, run
\* returns after FactSteps(n) iterations, and the data stack then holds the
\* one word Int(n!): Int(24) for 4, Int(120) for 5.
C14_Factorial ==
    \A n \in 0..MaxFact :
        (source.kind = "text" /\ source.text = Src_fact(n)) =>
            /\ status \in {"running", "ok"}
            /\ steps <= FactSteps(n)
            /\ (steps = FactSteps(n) /\ FactSteps(n) <= MaxSteps) => code = <<>>
            /\ (ev.kind = "interpreted" /\ ev.word = WAtom(<<"f", "a", "c", "t">>)) =>
                    /\ code = Front(pre.code) \o FactBody
                    /\ data = pre.data
            /\ status = "ok" =>
                    /\ steps = FactSteps(n)
                    /\ data = <<WInt(Factorial(n))>>
                    /\ restore = <<>>

\* fact 4 has returned with Int(24) alone on the data stack
C14_Witness ==
    /\ source.text = Src_fact(4)
    /\ status = "ok"
    /\ data = <<WInt(24)>>
    /\ Cardinality({k \in 1..Len(consumed) : consumed[k] = WAtom(<<"f", "a", "c", "t">>)}) = 5


\* C15: every recovery snapshot pushed by a try is consumed exactly once: none
\* is left on the recovery stack when run returns, and from its capture to its
\* consumption the dictionary, data stack and code stack it holds are those of
\* the machine at its try (the code stack extended by the catch block).
C15_Original ==
    /\ status = "ok" => restore = <<>>
    /\ Len(tries) = Len(restore)
    /\ \A k \in 1..Len(restore) :
            /\ restore[k].dict = tries[k].dict
            /\ restore[k].data = Drop(tries[k].data, 2)
            /\ Len(restore[k].code) >= Len(tries[k].code) - 1
            /\ SubSeq(restore[k].code, 1, Len(tries[k].code) - 1) = Front(tries[k].code)


\* the value that the dictionary binds the word w to
BoundValue(w) == dict[w.a].word

\* C16: a call of an interpreted word whose value is a List puts the elements
\* of the list on the tail of the code stack and leaves the data stack alone;
\* a call of one whose value is not a List pushes the value as a literal: the
\* next iteration of run puts it on the data stack without executing it.
C16_Original ==
    [][/\ (ev'.kind = "interpreted" /\ ev'.err = NoErr /\ BoundValue(ev'.word).t = "List") =>
            /\ code' = Front(code) \o BoundValue(ev'.word).l
            /\ data' = data
       /\ (ev.kind = "interpreted" /\ ev.err = NoErr /\ BoundValue(ev.word).t # "List"
                /\ steps' = steps + 1) =>
            /\ ev'.kind = "literal"
            /\ ev'.word = BoundValue(ev.word)
            /\ data' = <<BoundValue(ev.word)>> \o data]_vars


\* the binding of the interpreted word that the last iteration called
Called == pre.dict[ev.word.a]

\* C17 as stated: the call of an interpreted word whose signature is not
\* exact never fails with StackUnderflow, and its body is put on the code stack
\* whatever the depth of the data stack.
C17_Original ==
    (ev.kind = "interpreted" /\ ~Called.spec.exact) =>
        /\ ev.err # StackUnderflow
        /\ Called.word.t = "List" => code = Front(pre.code) \o Called.word.l

\* C17: the call of an interpreted word compares the depth of the data stack
\* with the input of its signature whether the signature is exact or not: a
\* word whose signature is not exact fails with StackUnderflow when the data
\* stack holds fewer words than its input, and its body is then not put on the
\* code stack; with at least that many words the body is put on the code
\* stack.
C17_InexactChecked ==
    (ev.kind = "interpreted" /\ ~Called.spec.exact) =>
        /\ Len(pre.data) < Called.spec.input =>
                /\ ev.err = StackUnderflow
                /\ pre.restore = <<>> =>
                        /\ status = "err" /\ err = StackUnderflow
                        /\ code = Front(pre.code)
                        /\ data = pre.data
        /\ Len(pre.data) >= Called.spec.input =>
                /\ ev.err = NoErr
                /\ Called.word.t = "List" => code = Front(pre.code) \o Called.word.l

\* k, of signature {2, 1, inexact}, was called on the empty data stack
C17_Witness ==
    /\ ev.kind = "interpreted"
    /\ Called.spec = TypeSpec(2, 1, FALSE)
    /\ pre.data = <<>>
    /\ status = "err"
    /\ err = StackUnderflow
    /\ code = <<>>

\* C18: the call of an interpreted word whose signature is exact, on a data
\* stack that holds fewer words than the input of the signature, fails with
\* StackUnderflow; no word of its body is put on the code stack, and the data
\* stack and the dictionary are those before the call.
C18_ExactUnderflow ==
    (ev.kind = "interpreted" /\ Called.spec.exact /\ Len(pre.data) < Called.spec.input) =>
        /\ ev.err = StackUnderflow
        /\ pre.restore = <<>> =>
                /\ status = "err" /\ err = StackUnderflow
                /\ code = Front(pre.code)
                /\ data = pre.data
                /\ dict = pre.dict

\* k, of signature {1, 1, exact}, was called on the empty data stack
C18_Witness ==
    /\ ev.kind = "interpreted"
    /\ Called.spec = TypeSpec(1, 1, TRUE)
    /\ Called.word = WList(<<WAtom(<<"+">>), WInt(1)>>)
    /\ pre.data = <<>>
    /\ status = "err"
    /\ err = StackUnderflow
    /\ data = <<>>
    /\ code = <<>>


\* the composition rule of two stack effects, as the claim words it
Compose(self, next) ==
    IF self.output < next.input
    THEN [input |-> self.input + (next.input - self.output),
          output |-> 0 + next.output, exact |-> self.exact]
    ELSE [input |-> self.input,
          output |-> (self.output - next.input) + next.output, exact |-> self.exact]

\* the fold of the composition rule over body[1..k], from body[k] down to
\* body[1], in the dictionary d: it stops at the first unbound atom and after
\* the first signature that is not exact
RECURSIVE Fold(_, _, _, _)
Fold(d, body, k, acc) ==
    IF k = 0 THEN acc
    ELSE IF body[k].t # "Atom" THEN Fold(d, body, k - 1, Compose(acc, TypeSpec(0, 1, TRUE)))
    ELSE IF body[k].a \notin DOMAIN d THEN [acc EXCEPT !.exact = FALSE]
    ELSE LET next == IF d[body[k].a].k = "Primitive"
                     THEN Builtin_get_type(d[body[k].a].op) ELSE d[body[k].a].spec
         IN  IF next.exact THEN Fold(d, body, k - 1, Compose(acc, next))
             ELSE [Compose(acc, next) EXCEPT !.exact = FALSE]

\* the name and the value of the assignment that the last iteration made
AssignedName == pre.code[Len(pre.code) - 1].a
AssignedValue == Head(pre.data)

\* C19: the signature that '=' stores for a List is the fold of the
\* composition rule over the words of the list from last to first, starting
\* from {0, 0, exact}: a word that is not an atom contributes {0, 1}, a bound
\* atom its stored or primitive signature, and the first unbound atom or
\* inexact signature ends the scan with exact = false. A body of n words that
\* are not atoms has the signature {0, n, exact}.
C19_InferType ==
    (Ran("Assign") /\ ev.err = NoErr /\ AssignedValue.t = "List") =>
        /\ dict[AssignedName].spec =
                Fold(pre.dict, AssignedValue.l, Len(AssignedValue.l), TypeSpec(0, 0, TRUE))
        /\ (\A k \in 1..Len(AssignedValue.l) : AssignedValue.l[k].t # "Atom") =>
                dict[AssignedName].spec = TypeSpec(0, Len(AssignedValue.l), TRUE)

\* k = { drop + 1 } was assigned the signature {1, 0, exact}
C19_Witness ==
    /\ Ran("Assign") /\ ev.err = NoErr
    /\ AssignedValue = WList(<<WAtom(<<"d", "r", "o", "p">>), WAtom(<<"+">>), WInt(1)>>)
    /\ dict[AssignedName].spec = TypeSpec(1, 0, TRUE)


\* C20: a successful '=' takes the next word, an Atom n, off the code stack
\* without executing it, pops one value v off the data stack, and binds n to
\* Interpreted(spec, v), where spec is infer_type(v) for a List and the
\* literal signature {0, 1, exact} otherwise. The binding replaces any
\* previous binding of n, built-in or interpreted; every other binding, the
\* rest of the data stack, the rest of the code stack and the recovery stack
\* are unchanged.
C20_AssignFrame ==
    (Ran("Assign") /\ ev.err = NoErr) =>
        /\ Len(pre.code) >= 2 /\ pre.data # <<>>
        /\ pre.code[Len(pre.code) - 1].t = "Atom"
        /\ code = SubSeq(pre.code, 1, Len(pre.code) - 2)
        /\ Last(consumed) = Last(pre.code)
        /\ data = Tail(pre.data)
        /\ dict[AssignedName] =
                Interpreted(IF AssignedValue.t = "List"
                            THEN infer_type(pre.dict, AssignedValue.l)
                            ELSE TypeSpec(0, 1, TRUE),
                            AssignedValue)
        /\ DOMAIN dict = DOMAIN pre.dict \cup {AssignedName}
        /\ \A n \in DOMAIN pre.dict \ {AssignedName} : dict[n] = pre.dict[n]
        /\ restore = pre.restore
        /\ status = "running"

\* drop = 2 has replaced the built-in drop by the literal 2
C20_Witness ==
    /\ Ran("Assign") /\ ev.err = NoErr
    /\ AssignedName = <<"d", "r", "o", "p">>
    /\ pre.dict[AssignedName] = Primitive("Drop")
    /\ dict[AssignedName] = Interpreted(TypeSpec(0, 1, TRUE), WInt(2))
    /\ pre.data = <<WInt(2)>> /\ data = <<>> /\ code = <<>>


\* the greatest k with names[k] the atom a, 0 when there is none
LastNamed(names, a) ==
    LET ks == {k \in 1..Len(names) : names[k] = WAtom(a)} IN
    IF ks = {} THEN 0 ELSE CHOOSE k \in ks : \A j \in ks : j <= k

\* the word w with every atom that is one of the names replaced by the value
\* of that name, at any depth of lists; a name listed twice has the value of
\* its last occurrence
RECURSIVE Subst(_, _, _)
Subst(w, names, values) ==
    IF w.t = "Atom"
    THEN IF LastNamed(names, w.a) = 0 THEN w ELSE values[LastNamed(names, w.a)]
    ELSE IF w.t = "List"
    THEN WList([k \in 1..Len(w.l) |-> Subst(w.l[k], names, values)])
    ELSE w

\* the list of names that the expand of the last iteration popped
ExpandNames == Head(pre.data).l

\* C21 as stated: expand pops the list of names, then one value per name, then
\* the body, and pushes the body with the names replaced.
C21_Original ==
    (Ran("Expand") /\ ev.err = NoErr) =>
        /\ Len(pre.data) >= Len(ExpandNames) + 2
        /\ data = <<Subst(pre.data[Len(ExpandNames) + 2], ExpandNames,
                          SubSeq(pre.data, 2, Len(ExpandNames) + 1))>>
                  \o Drop(pre.data, Len(ExpandNames) + 2)

\* C21: expand pops the list of names, then the body, then one value per name
\* in the order of the names, and pushes the body in which every atom that is
\* one of the names, at any depth of lists, is replaced by the value of that
\* name; the other atoms, the literals and the list structure are kept, and
\* the rest of the data stack is unchanged. With fewer values than names it
\* fails with StackUnderflow.
C21_Expand ==
    /\ (Ran("Expand") /\ ev.err = NoErr) =>
            /\ Len(pre.data) >= Len(ExpandNames) + 2
            /\ data = <<Subst(pre.data[2], ExpandNames,
                              SubSeq(pre.data, 3, Len(ExpandNames) + 2))>>
                      \o Drop(pre.data, Len(ExpandNames) + 2)
    /\ (Ran("Expand") /\ Len(pre.data) >= 2 /\ Head(pre.data).t = "List"
            /\ (\A k \in 1..Len(ExpandNames) : ExpandNames[k].t = "Atom")
            /\ Len(pre.data) < Len(ExpandNames) + 2) =>
            ev.err = StackUnderflow

\* expand { x y } { + x { y x z } } 1 2 has pushed { + 1 { 2 1 z } }
C21_Witness ==
    /\ Ran("Expand") /\ ev.err = NoErr
    /\ ExpandNames = <<WAtom(<<"x">>), WAtom(<<"y">>)>>
    /\ Drop(pre.data, 2) = <<WInt(1), WInt(2)>>
    /\ data = <<WList(<<WAtom(<<"+">>), WInt(1),
                        WList(<<WInt(2), WInt(1), WAtom(<<"z">>)>>)>>)>>


\* the words of the List that the explode of the last iteration popped
Exploded == Head(pre.data).l

\* C22: explode pops a List and pushes each of its elements on the data stack:
\* afterwards the elements of the list are the topmost words of the data
\* stack, above every word that was on the stack before, so that a following
\* pop returns an element of the list.
C22_Original ==
    (Ran("Explode") /\ ev.err = NoErr) =>
        /\ Len(data) = Len(Exploded) + Len(pre.data) - 1
        /\ Drop(data, Len(Exploded)) = Tail(pre.data)
        /\ {data[k] : k \in 1..Len(Exploded)} = {Exploded[k] : k \in 1..Len(Exploded)}
        /\ Exploded # <<>> => \E k \in 1..Len(Exploded) : Head(data) = Exploded[k]

\* the index that the pick or roll of the last iteration popped, and the data
\* stack it addresses
IndexWord == Head(pre.data)
IndexOk == IndexWord.t = "Hex" \/ (IndexWord.t = "Int" /\ IndexWord.i >= 0)
IndexValue == IF IndexWord.t = "Int" THEN IndexWord.i ELSE HexIndex(IndexWord.h)
Addressed == Tail(pre.data)

Before == Front(pre.code)

\* C24: for the words (( lhs op rhs )) the marker '))' takes the four words
\* '((', lhs, op, rhs off the code stack and puts back op, lhs, rhs, so that
\* rhs is evaluated next, then lhs, then op; the rest of the code stack, the
\* data stack and the dictionary are unchanged. When fewer than three words
\* lie under '))' or the word under them is not the atom '((', it fails with
\* MacroFailed. The text 5 (( 6 - 2 )) 9 leaves 5, 4, 9 on the data stack.
C24_InfixExpr ==
    /\ Ran("InfixExpr") =>
            IF Len(Before) >= 4 /\ Before[Len(Before) - 3] = WAtom(<<"(", "(">>)
            THEN /\ ev.err = NoErr
                 /\ code = SubSeq(Before, 1, Len(Before) - 4)
                           \o <<Before[Len(Before) - 1], Before[Len(Before) - 2],
                                Before[Len(Before)]>>
                 /\ data = pre.data
                 /\ dict = pre.dict
            ELSE /\ ev.err = MacroFailed
                 /\ pre.restore = <<>> => (status = "err" /\ err = MacroFailed)
    /\ (source.kind = "text" /\ source.text = Src_infix /\ status # "running") =>
            (status = "ok" /\ data = <<WInt(5), WInt(4), WInt(9)>>)

\* the '))' of 5 (( 6 - 2 )) 9 has put - 6 2 back over the 5
C24_Witness ==
    /\ Ran("InfixExpr") /\ ev.err = NoErr
    /\ Before = <<WInt(5), WAtom(<<"(", "(">>), WInt(6), WAtom(<<"-">>), WInt(2)>>
    /\ code = <<WInt(5), WAtom(<<"-">>), WInt(6), WInt(2)>>
    /\ data = <<WInt(9)>>


\* C25: in every state reached by loading and running programs, among them
\* text parsed by the parse built-in and a body rewritten by expand, the
\* dictionary binds no empty name; neither does the dictionary of any
\* recovery snapshot.
C25_NoEmptyName ==
    /\ <<>> \notin DOMAIN dict
    /\ \A k \in 1..Len(restore) : <<>> \notin DOMAIN restore[k].dict

\* the assignment k = 1 that the parse built-in read from a Str has bound k
C25_Witness ==
    /\ source.kind = "text" /\ source.text = Src_parse_def
    /\ Ran("Assign") /\ ev.err = NoErr
    /\ DOMAIN dict = DOMAIN pre.dict \cup {<<"k">>}
    /\ <<"k">> \notin DOMAIN pre.dict
    /\ <<>> \notin DOMAIN dict


PopEHMarker == WAtom(<<"p", "o", "p", "e", "h">>)

\* C26: nested try regions are handled last in, first out. An error restores
\* the newest snapshot and removes it alone; with an inner try active in the
\* body of an outer one the outer snapshot stays on the recovery stack and the
\* restored code still holds the popeh of the outer region, so that the outer
\* region ends normally: 1; try { 2; try { 3; nope } { 4 }; 5 } { 6 }; 7
\* returns with 7, 5, 4, the message of nope, 2, 1 on the data stack and an
\* empty recovery stack. An error of the inner catch block is recovered with
\* the outer snapshot: try { 2; try { 3; nope } { zap }; 5 } { 6 }; 7 returns
\* with 7, 6 and the message of zap.
C26_NestedTry ==
    /\ ev.rec =>
            /\ pre.restore # <<>>
            /\ restore = Front(pre.restore)
            /\ dict = Last(pre.restore).dict
            /\ code = Last(pre.restore).code
            /\ data = <<WStr(Diagnostic(ev.word.a, ev.err))>> \o Last(pre.restore).data
    /\ (ev.rec /\ Len(pre.restore) = 2 /\ source.kind = "text"
            /\ source.text \in {Src_try_nested, Src_try_catch}) =>
            /\ restore = <<pre.restore[1]>>
            /\ \E k \in 1..Len(code) : code[k] = PopEHMarker
    /\ (source.kind = "text" /\ source.text = Src_try_nested /\ status # "running") =>
            /\ status = "ok"
            /\ restore = <<>>
            /\ data = <<WInt(7), WInt(5), WInt(4),
                        WStr(Diagnostic(N_nope, CantUnderstand(N_nope))), WInt(2), WInt(1)>>
    /\ (source.kind = "text" /\ source.text = Src_try_catch /\ status # "running") =>
            /\ status = "ok"
            /\ restore = <<>>
            /\ data = <<WInt(7), WInt(6),
                        WStr(Diagnostic(<<"z", "a", "p">>, CantUnderstand(<<"z", "a", "p">>)))>>

\* the error of the inner catch block, after the error of the inner body, has
\* been recovered with the outer snapshot
C26_Witness ==
    /\ source.text = Src_try_catch
    /\ ev.rec /\ ev.word = WAtom(<<"z", "a", "p">>)
    /\ \E k \in 1..Len(consumed) : consumed[k] = WAtom(N_nope)
    /\ Len(pre.restore) = 1 /\ restore = <<>>
    /\ code = <<WInt(7), WInt(6)>>


\* the declared signature of the built-in that the last iteration executed
Declared == Builtin_get_type(ev.op)

\* C27: the declared signatures of the built-ins agree with what they do: a
\* built-in whose signature is exact with input i and output o changes the
\* length of the data stack by o - i whenever it succeeds, and never succeeds
\* on a data stack of fewer than i words.
C27_Signatures ==
    (ev.kind = "primitive" /\ ev.res = "Ok" /\ ev.err = NoErr /\ Declared.exact) =>
        /\ Len(data) - Len(pre.data) = Declared.output - Declared.input
        /\ Len(pre.data) >= Declared.input


\* strcat has replaced two words of the data stack by one
C27_Witness ==
    /\ Ran("Strcat") /\ ev.res = "Ok" /\ ev.err = NoErr
    /\ Declared = TypeSpec(2, 1, TRUE)
    /\ Len(pre.data) = 2
    /\ Len(data) = 1


\* the quotient of x by y rounded towards zero, y not zero
Truncated(x, y) ==
    LET q == x \div y IN
    IF q * y # x /\ ((x < 0) # (y < 0)) THEN q + 1 ELSE q

\* C28: for Int operands and a divisor that is not zero '/' succeeds and
\* pushes the quotient rounded towards zero in place of its operands;
\* DivideByZero is raised only when the divisor is zero.
C28_Original ==
    (Ran("OpDiv") /\ Len(pre.data) >= 2 /\ pre.data[1].t = "Int" /\ pre.data[2].t = "Int") =>
        /\ ev.err = DivideByZero => pre.data[2].i = 0
        /\ pre.data[2].i # 0 =>
                /\ ev.err = NoErr
                /\ data = <<WInt(Truncated(pre.data[1].i, pre.data[2].i))>> \o Drop(pre.data, 2)

====
